---- MODULE Spec2Model ----
(***************************************************************************)
(* Odin: an object-mapping layer over a bbolt key-value store.             *)
(*                                                                         *)
(* The module models three parts of the repository:                        *)
(*   - the compression envelope (internal/compression),                    *)
(*   - the secondary index and the save/delete/query paths                 *)
(*     (internal/indexing, bucket),                                        *)
(*   - the parallel scan of FindWhereInDatabase (bucket).                  *)
(* Each part has its own specification over the shared variables.          *)
(***************************************************************************)
EXTENDS Integers, Sequences, FiniteSets, TLC

(***************************************************************************)
(* State                                                                   *)
(***************************************************************************)
\* the envelope: an input, its frame, the decoded frame, and the stage
VARIABLES cin, cframe, cout, cpc, cwriter, cfail

\* indexing.bucketIndexes, the store's buckets, the number of Save/Delete
\* calls so far and the last of them
VARIABLES bucketIndexes, store, nops, last

\* one FindWhereInDatabase call: its arguments, the collector (fpc, results,
\* ret), the producer (prod, produced, prodTimedOut), the work queue, the
\* workers (wpc, localResults, consumed) and the result channel
VARIABLES criteria, numWorkers, fpc, ret, prod, produced, prodTimedOut, workChan,
          wpc, localResults, consumed, resultChan, resultClosed, results

\* threads calling Save, Delete and FindWhere: indexing.indexMutex, the
\* store's transactions, each thread's call, position and locals
VARIABLES indexMutex, dbTx, top, tpc, tlocal

\* a call of reflection.MatchesCriteria: the record, the criteria, where the
\* call is and what it returned
VARIABLES mentity, mcrit, mpc, mret

\* the format upgrades started by db.Get and not yet run (go func() { db.Put })
VARIABLES pending

\* reflection.matcherCache for the record type, and the threads calling
\* GetFieldMatcher: where each is, the matcher it holds, the matchers built,
\* and which of the two GetFieldMatcher of the sources is compiled in
VARIABLES matcherCache, gpc, glocal, built, gimpl

\* the database manager: manager.databases (the registered names),
\* manager.defaultDB, and the last call with its error
VARIABLES databases, defaultDB, mlast

\* runtime.NumCPU() as the scan read it (0: not recorded)
VARIABLES numCPU

\* a caller of indexing.GetIndexedKeys: where it is, the slice it was given,
\* and the key list of the index whose array that slice shares (none: NoAlias)
VARIABLES callerPc, callerKeys, callerAlias

\* a call of FieldMatcher.GetFieldValue: the fields of the record type, the
\* record, the name looked up, where the call is and what it returned
VARIABLES ltype, lentity, lkey, lpc, lret

codecVars == <<cin, cframe, cout, cpc, cwriter, cfail>>

concVars == <<indexMutex, dbTx, top, tpc, tlocal>>

matchVars == <<mentity, mcrit, mpc, mret>>

migVars == <<pending>>

cacheVars == <<matcherCache, gpc, glocal, built, gimpl>>

mgrVars == <<databases, defaultDB, mlast>>

poolVars == <<numCPU>>

callerVars == <<callerPc, callerKeys, callerAlias>>

lookupVars == <<ltype, lentity, lkey, lpc, lret>>

extVars == <<pending, matcherCache, gpc, glocal, built, gimpl, databases, defaultDB, mlast, numCPU,
             callerPc, callerKeys, callerAlias, ltype, lentity, lkey, lpc, lret>>

indexVars == <<bucketIndexes, store, nops, last>>

findVars == <<criteria, numWorkers, fpc, ret, prod, produced, prodTimedOut, workChan,
              wpc, localResults, consumed, resultChan, resultClosed, results>>

vars == <<cin, cframe, cout, cpc, cwriter, cfail, bucketIndexes, store, nops, last,
          criteria, numWorkers, fpc, ret, prod, produced, prodTimedOut, workChan,
          wpc, localResults, consumed, resultChan, resultClosed, results,
          indexMutex, dbTx, top, tpc, tlocal, mentity, mcrit, mpc, mret,
          pending, matcherCache, gpc, glocal, built, gimpl, databases, defaultDB, mlast, numCPU,
          callerPc, callerKeys, callerAlias, ltype, lentity, lkey, lpc, lret>>

(***************************************************************************)
(* Bytes and byte sequences                                                *)
(***************************************************************************)
Byte == 0..255

\* The loops over bytes and codes below are written "XLoop(.., st, lo, hi)":
\* the statements of the loop's body for the indexes lo..hi from the state
\* st, left as soon as st.halt is set; a range is run as its lower half
\* followed by its upper half.
Mid(lo, hi) == (lo + hi) \div 2

RECURSIVE SumRange(_, _, _)
SumRange(s, lo, hi) ==
    CASE lo > hi -> 0
      [] lo = hi -> s[lo] % 256
      [] OTHER -> (SumRange(s, lo, Mid(lo, hi)) + SumRange(s, Mid(lo, hi) + 1, hi)) % 256

SumBytes(s) == SumRange(s, 1, Len(s))

Take(s, n) == SubSeq(s, 1, n)
Drop(s, n) == SubSeq(s, n + 1, Len(s))

(***************************************************************************)
(* compression.go: codec tags and the size threshold                       *)
(***************************************************************************)
None == 0
Gzip == 1
Zlib == 2
Flate == 3
LZW == 4
threshold == 50

(***************************************************************************)
(* compress/flate (library).  The DEFLATE bit stream is outside the        *)
(* repository; it is represented by a lossless run coder: one (count,byte) *)
(* pair per maximal run, closed by an end-of-block marker 0.  The decoder  *)
(* stops at the marker (trailing bytes are not read) and fails when the    *)
(* stream ends before it.                                                  *)
(***************************************************************************)
\* the length of the run of b that s starts with
RunLen(s, b) ==
    IF b \notin Byte THEN 0
    ELSE IF \A i \in 1..Len(s) : s[i] = b THEN Len(s)
    ELSE (CHOOSE i \in 1..Len(s) : s[i] /= b /\ \A j \in 1..(i - 1) : s[j] = b) - 1

\* one (count, byte) pair for the run that starts at i, when a run starts there
DeflateRun(s, st, i) ==
    IF i /= st.next THEN st
    ELSE LET n == RunLen(Drop(s, i - 1), s[i])
             m == IF n > 255 THEN 255 ELSE n
         IN  [halt |-> FALSE, out |-> st.out \o <<m, s[i]>>, next |-> i + m]

RECURSIVE DeflateLoop(_, _, _, _)
DeflateLoop(s, st, lo, hi) ==
    CASE st.halt \/ lo > hi -> st
      [] ~st.halt /\ lo = hi -> DeflateRun(s, st, lo)
      [] OTHER -> DeflateLoop(s, DeflateLoop(s, st, lo, Mid(lo, hi)), Mid(lo, hi) + 1, hi)

DeflateBody(s) ==
    DeflateLoop(s, [halt |-> FALSE, out |-> <<>>, next |-> 1], 1, Len(s)).out \o <<0>>

Repeat(b, n) == [i \in 1..n |-> b]

\* Result of a decoder: ok = FALSE is the library's error return.
Fail == [ok |-> FALSE, out |-> <<>>, rest |-> <<>>]

\* the pair read at i, when a pair starts there: the marker ends the stream,
\* a count without its byte is the unexpected end of the stream
InflateRun(s, st, i) ==
    IF i /= st.next THEN st
    ELSE IF s[i] = 0
    THEN [halt |-> TRUE, ok |-> TRUE, out |-> st.out, rest |-> Drop(s, i), next |-> i]
    ELSE IF i = Len(s)
    THEN [halt |-> TRUE, ok |-> FALSE, out |-> <<>>, rest |-> <<>>, next |-> i]
    ELSE [halt |-> FALSE, ok |-> FALSE, out |-> st.out \o Repeat(s[i + 1], s[i]),
          rest |-> <<>>, next |-> i + 2]

RECURSIVE InflateLoop(_, _, _, _)
InflateLoop(s, st, lo, hi) ==
    CASE st.halt \/ lo > hi -> st
      [] ~st.halt /\ lo = hi -> InflateRun(s, st, lo)
      [] OTHER -> InflateLoop(s, InflateLoop(s, st, lo, Mid(lo, hi)), Mid(lo, hi) + 1, hi)

InflateResult(r) == IF r.ok THEN [ok |-> TRUE, out |-> r.out, rest |-> r.rest] ELSE Fail

InflateBody(s) ==
    InflateResult(InflateLoop(s, [halt |-> FALSE, ok |-> FALSE, out |-> <<>>,
                                  rest |-> <<>>, next |-> 1], 1, Len(s)))

\* compressFlate: flate.NewWriter + Write + Close
compressFlate(data) == DeflateBody(data)

\* flate reader + io.ReadAll
FlateDecode(s) == LET r == InflateBody(s)
                  IN  [ok |-> r.ok, out |-> r.out]

(***************************************************************************)
(* compress/gzip: 10-byte header (magic 1f 8b, method 8), DEFLATE body,    *)
(* 8-byte trailer (checksum, size).  compress/zlib: 2-byte header,         *)
(* DEFLATE body, 4-byte checksum.                                          *)
(***************************************************************************)
GzipHeader == <<31, 139, 8, 0, 0, 0, 0, 0, 0, 255>>
GzipTrailer(data) == <<SumBytes(data), 0, 0, 0, Len(data) % 256, 0, 0, 0>>
ZlibHeader == <<120, 156>>
ZlibTrailer(data) == <<0, 0, 0, SumBytes(data)>>

compressGzip(data) == GzipHeader \o DeflateBody(data) \o GzipTrailer(data)
compressZlib(data) == ZlibHeader \o DeflateBody(data) \o ZlibTrailer(data)

GzipDecode(s) ==
    IF Len(s) < 10 \/ Take(s, 3) /= <<31, 139, 8>> THEN [ok |-> FALSE, out |-> <<>>]
    ELSE LET r == InflateBody(Drop(s, 10))
         IN  IF r.ok /\ r.rest = GzipTrailer(r.out)
             THEN [ok |-> TRUE, out |-> r.out]
             ELSE [ok |-> FALSE, out |-> <<>>]

ZlibDecode(s) ==
    IF Len(s) < 2 \/ Take(s, 2) /= ZlibHeader THEN [ok |-> FALSE, out |-> <<>>]
    ELSE LET r == InflateBody(Drop(s, 2))
         IN  IF r.ok /\ Len(r.rest) >= 4 /\ Take(r.rest, 4) = ZlibTrailer(r.out)
             THEN [ok |-> TRUE, out |-> r.out]
             ELSE [ok |-> FALSE, out |-> <<>>]

(***************************************************************************)
(* compress/lzw (library), literal width 8.  Codes 0..255 are literals,    *)
(* 256 is the clear code, 257 the end code, 258.. are dictionary entries.  *)
(* The writer sends a clear code first and the end code last.  Codes are   *)
(* 9 bits wide until the 255th code of a stream, which inputs shorter than *)
(* 254 bytes never reach, so the width is fixed at CodeWidth here.         *)
(***************************************************************************)
ClearCode == 256
EofCode == 257
CodeWidth == 9

Pow2(n) == 2 ^ n

InDict(w, dict) == \E i \in 1..Len(dict) : dict[i] = w
CodeOf(w, dict) == IF Len(w) = 1 THEN w[1]
                   ELSE EofCode + (CHOOSE i \in 1..Len(dict) : dict[i] = w)

\* the writer's loop over the bytes p after the first, from the pending
\* string w and the dictionary dict
LzwEncByte(p, st, i) ==
    LET wx == Append(st.w, p[i])
    IN  IF InDict(wx, st.dict)
        THEN [st EXCEPT !.w = wx]
        ELSE [halt |-> FALSE, w |-> <<p[i]>>, dict |-> Append(st.dict, wx),
              codes |-> Append(st.codes, CodeOf(st.w, st.dict))]

RECURSIVE LzwEncLoop(_, _, _, _)
LzwEncLoop(p, st, lo, hi) ==
    CASE st.halt \/ lo > hi -> st
      [] ~st.halt /\ lo = hi -> LzwEncByte(p, st, lo)
      [] OTHER -> LzwEncLoop(p, LzwEncLoop(p, st, lo, Mid(lo, hi)), Mid(lo, hi) + 1, hi)

\* Close: the code of the pending string, then the end code
LzwEncClose(r) == r.codes \o <<CodeOf(r.w, r.dict), EofCode>>

LzwEnc(p, w, dict) ==
    LzwEncClose(LzwEncLoop(p, [halt |-> FALSE, w |-> w, dict |-> dict, codes |-> <<>>],
                           1, Len(p)))

LzwCodes(data) == IF data = <<>> THEN <<ClearCode, EofCode>>
                  ELSE <<ClearCode>> \o LzwEnc(Tail(data), <<Head(data)>>, <<>>)

\* prev = <<>> stands for the reader's "invalid code" (nothing decoded since clear)
LzwDecCode(st, c) ==
    LET hi == EofCode + Len(st.dict) + 1
    IN  IF c = ClearCode THEN [st EXCEPT !.dict = <<>>, !.prev = <<>>]
        ELSE IF c = EofCode THEN [st EXCEPT !.halt = TRUE, !.ok = TRUE]
        ELSE IF c > ClearCode /\ (st.prev = <<>> \/ c > hi)
             THEN [st EXCEPT !.halt = TRUE]
        ELSE LET str == IF c < ClearCode THEN <<c>>
                        ELSE IF c = hi THEN Append(st.prev, st.prev[1])
                        ELSE st.dict[c - EofCode]
                 nd == IF st.prev = <<>> THEN st.dict
                       ELSE Append(st.dict, Append(st.prev, str[1]))
             IN  [halt |-> FALSE, ok |-> FALSE, out |-> st.out \o str,
                  dict |-> nd, prev |-> str]

RECURSIVE LzwDecLoop(_, _, _, _)
LzwDecLoop(codes, st, lo, hi) ==
    CASE st.halt \/ lo > hi -> st
      [] ~st.halt /\ lo = hi -> LzwDecCode(st, codes[lo])
      [] OTHER -> LzwDecLoop(codes, LzwDecLoop(codes, st, lo, Mid(lo, hi)), Mid(lo, hi) + 1, hi)

\* the stream is good only when the end code was read
LzwDecResult(r) == IF r.ok THEN [ok |-> TRUE, out |-> r.out] ELSE [ok |-> FALSE, out |-> <<>>]

LzwDec(codes, dict, prev) ==
    LzwDecResult(LzwDecLoop(codes, [halt |-> FALSE, ok |-> FALSE, out |-> <<>>,
                                    dict |-> dict, prev |-> prev], 1, Len(codes)))

\* Bit packing of the code stream.  order is "LSB" or "MSB" (lzw.Order).
PackLSBCode(st, c) ==
    LET a1 == st.acc + c * Pow2(st.nbits)
        n1 == st.nbits + CodeWidth
    IN  IF n1 >= 16
        THEN [halt |-> FALSE, out |-> st.out \o <<a1 % 256, (a1 \div 256) % 256>>,
              acc |-> a1 \div 65536, nbits |-> n1 - 16]
        ELSE [halt |-> FALSE, out |-> st.out \o <<a1 % 256>>,
              acc |-> a1 \div 256, nbits |-> n1 - 8]

RECURSIVE PackLSBLoop(_, _, _, _)
PackLSBLoop(codes, st, lo, hi) ==
    CASE st.halt \/ lo > hi -> st
      [] ~st.halt /\ lo = hi -> PackLSBCode(st, codes[lo])
      [] OTHER -> PackLSBLoop(codes, PackLSBLoop(codes, st, lo, Mid(lo, hi)), Mid(lo, hi) + 1, hi)

\* Close: the bits still held are written as one more byte
PackLSBFlush(r) == r.out \o (IF r.nbits > 0 THEN <<r.acc % 256>> ELSE <<>>)

PackLSB(codes, acc, nbits) ==
    PackLSBFlush(PackLSBLoop(codes, [halt |-> FALSE, out |-> <<>>, acc |-> acc,
                                     nbits |-> nbits], 1, Len(codes)))

PackMSBCode(st, c) ==
    LET a1 == st.acc * Pow2(CodeWidth) + c
        n1 == st.nbits + CodeWidth
    IN  IF n1 >= 16
        THEN [halt |-> FALSE,
              out |-> st.out \o <<a1 \div Pow2(n1 - 8), (a1 \div Pow2(n1 - 16)) % 256>>,
              acc |-> a1 % Pow2(n1 - 16), nbits |-> n1 - 16]
        ELSE [halt |-> FALSE, out |-> st.out \o <<a1 \div Pow2(n1 - 8)>>,
              acc |-> a1 % Pow2(n1 - 8), nbits |-> n1 - 8]

RECURSIVE PackMSBLoop(_, _, _, _)
PackMSBLoop(codes, st, lo, hi) ==
    CASE st.halt \/ lo > hi -> st
      [] ~st.halt /\ lo = hi -> PackMSBCode(st, codes[lo])
      [] OTHER -> PackMSBLoop(codes, PackMSBLoop(codes, st, lo, Mid(lo, hi)), Mid(lo, hi) + 1, hi)

PackMSBFlush(r) == r.out \o (IF r.nbits > 0 THEN <<r.acc * Pow2(8 - r.nbits)>> ELSE <<>>)

PackMSB(codes, acc, nbits) ==
    PackMSBFlush(PackMSBLoop(codes, [halt |-> FALSE, out |-> <<>>, acc |-> acc,
                                     nbits |-> nbits], 1, Len(codes)))

UnpackLSBByte(st, b) ==
    LET a1 == st.acc + b * Pow2(st.nbits)
        n1 == st.nbits + 8
    IN  IF n1 >= CodeWidth
        THEN [halt |-> FALSE, codes |-> Append(st.codes, a1 % Pow2(CodeWidth)),
              acc |-> a1 \div Pow2(CodeWidth), nbits |-> n1 - CodeWidth]
        ELSE [halt |-> FALSE, codes |-> st.codes, acc |-> a1, nbits |-> n1]

RECURSIVE UnpackLSBLoop(_, _, _, _)
UnpackLSBLoop(bytes, st, lo, hi) ==
    CASE st.halt \/ lo > hi -> st
      [] ~st.halt /\ lo = hi -> UnpackLSBByte(st, bytes[lo])
      [] OTHER -> UnpackLSBLoop(bytes, UnpackLSBLoop(bytes, st, lo, Mid(lo, hi)), Mid(lo, hi) + 1, hi)

UnpackLSB(bytes, acc, nbits) ==
    UnpackLSBLoop(bytes, [halt |-> FALSE, codes |-> <<>>, acc |-> acc, nbits |-> nbits],
                  1, Len(bytes)).codes

UnpackMSBByte(st, b) ==
    LET a1 == st.acc * 256 + b
        n1 == st.nbits + 8
    IN  IF n1 >= CodeWidth
        THEN [halt |-> FALSE, codes |-> Append(st.codes, a1 \div Pow2(n1 - CodeWidth)),
              acc |-> a1 % Pow2(n1 - CodeWidth), nbits |-> n1 - CodeWidth]
        ELSE [halt |-> FALSE, codes |-> st.codes, acc |-> a1, nbits |-> n1]

RECURSIVE UnpackMSBLoop(_, _, _, _)
UnpackMSBLoop(bytes, st, lo, hi) ==
    CASE st.halt \/ lo > hi -> st
      [] ~st.halt /\ lo = hi -> UnpackMSBByte(st, bytes[lo])
      [] OTHER -> UnpackMSBLoop(bytes, UnpackMSBLoop(bytes, st, lo, Mid(lo, hi)), Mid(lo, hi) + 1, hi)

UnpackMSB(bytes, acc, nbits) ==
    UnpackMSBLoop(bytes, [halt |-> FALSE, codes |-> <<>>, acc |-> acc, nbits |-> nbits],
                  1, Len(bytes)).codes

\* lzw.NewWriter(&buf, order, 8) + Write + Close
LzwWrite(data, order) == IF order = "LSB" THEN PackLSB(LzwCodes(data), 0, 0)
                         ELSE PackMSB(LzwCodes(data), 0, 0)

\* io.ReadAll(lzw.NewReader(r, order, 8))
LzwRead(bytes, order) == LzwDec(IF order = "LSB" THEN UnpackLSB(bytes, 0, 0)
                                ELSE UnpackMSB(bytes, 0, 0), <<>>, <<>>)

\* a writer opened with the other bit order
WriterOrderMSB == "MSB"

\* compression.go: the bit order both compressLZW and the LZW case pass
WriterOrder == "LSB"

\* sensitivity variant: a reader opened with the other bit order
ReaderOrderMSB == "MSB"

ReaderOrder == "LSB"

compressLZW(data) == LzwWrite(data, WriterOrder)
LZWDecode(s) == LzwRead(s, ReaderOrder)

(***************************************************************************)
(* compression.go: CompressData                                            *)
(***************************************************************************)
\* the compressors slice, in the order it is tried
compressors == <<Gzip, Zlib, Flate, LZW>>

RunCompressor(id, data) ==
    CASE id = Gzip -> compressGzip(data)
      [] id = Zlib -> compressZlib(data)
      [] id = Flate -> compressFlate(data)
      [] id = LZW -> compressLZW(data)

\* c.comp(data): the buffer and the error of writer.Write; a codec in
\* failing is one whose writer reports an error before anything is written
Comp(id, data, failing) ==
    IF id \in failing THEN [compressed |-> <<>>, err |-> "write error"]
    ELSE [compressed |-> RunCompressor(id, data), err |-> "nil"]

\* the loop with a codec compared against the input instead of against best
RECURSIVE PickLastShorter(_, _, _, _, _)
PickLastShorter(cs, data, best, bestType, failing) ==
    IF cs = <<>> THEN <<bestType>> \o best
    ELSE LET c == Comp(Head(cs), data, failing)
         IN  IF c.err = "nil" /\ Len(c.compressed) < Len(data)
             THEN PickLastShorter(Tail(cs), data, c.compressed, Head(cs), failing)
             ELSE PickLastShorter(Tail(cs), data, best, bestType, failing)

\* the loop over compressors: a codec replaces best only when it reported no
\* error and its output is strictly shorter
RECURSIVE PickBest(_, _, _, _, _)
PickBest(cs, data, best, bestType, failing) ==
    IF cs = <<>> THEN <<bestType>> \o best
    ELSE LET c == Comp(Head(cs), data, failing)
         IN  IF c.err = "nil" /\ Len(c.compressed) < Len(best)
             THEN PickBest(Tail(cs), data, c.compressed, Head(cs), failing)
             ELSE PickBest(Tail(cs), data, best, bestType, failing)

\* CompressData without the test of the threshold
CompressDataNoThreshold(data, failing) == PickBest(compressors, data, data, None, failing)

\* CompressData when the codecs in failing report an error
CompressDataWith(data, failing) ==
    IF Len(data) < threshold THEN <<None>> \o data
    ELSE PickBest(compressors, data, data, None, failing)

CompressData(data) == CompressDataWith(data, {})

(***************************************************************************)
(* compression.go: DecompressData                                          *)
(***************************************************************************)
\* zlibReaderPool.New calls zlib.NewReader(nil), which reads the stream
\* header from a nil reader: the first Get of the pool does not return.
ZlibPoolGetPanics == TRUE

DecompressPanics(data) ==
    Len(data) > 0 /\ data[1] = Zlib /\ ZlibPoolGetPanics

\* the gzip-magic fallback at the end of DecompressData
MagicFallback(data) ==
    IF Len(data) >= 2 /\ data[1] = 31 /\ data[2] = 139
    THEN LET r == GzipDecode(data) IN IF r.ok THEN r.out ELSE data
    ELSE data

\* the switch on the tag of a modern frame
TagDecode(compressionType, compressedData) ==
    CASE compressionType = Gzip -> GzipDecode(compressedData)
      [] compressionType = Zlib -> ZlibDecode(compressedData)
      [] compressionType = Flate -> FlateDecode(compressedData)
      [] compressionType = LZW -> LZWDecode(compressedData)

\* DecompressData with a legacy branch that only strips the tag
DecompressDataLegacyRaw(data) ==
    IF Len(data) = 0 THEN data
    ELSE IF data[1] = 0 \/ data[1] = 1 THEN Tail(data)
    ELSE IF data[1] <= LZW
    THEN LET r == TagDecode(data[1], Tail(data))
         IN  IF r.ok THEN r.out ELSE MagicFallback(data)
    ELSE MagicFallback(data)

DecompressData(data) ==
    IF Len(data) = 0 THEN data
    ELSE IF data[1] = 0 \/ data[1] = 1
    THEN IF data[1] = 1 /\ GzipDecode(Tail(data)).ok
         THEN GzipDecode(Tail(data)).out
         ELSE Tail(data)
    ELSE IF data[1] <= LZW
    THEN LET r == TagDecode(data[1], Tail(data))
         IN  IF r.ok THEN r.out ELSE MagicFallback(data)
    ELSE MagicFallback(data)

(***************************************************************************)
(* Inputs of the envelope: byte sequences of every length up to MaxLen,    *)
(* periodic with period 1 (one run), 2, 3, 36 or RampPeriod (no            *)
(* repetition); the sets of codecs whose writer fails; the legacy writers. *)
(***************************************************************************)
MaxLen == 52
RampPeriod == 64
SeedBytes == {0, 1, 2, 31, 123, 250}
Periods == {1, 2, 3, 36, RampPeriod}

GenBytes(a, p, n) == [i \in 1..n |-> (a + ((i - 1) % p)) % 256]

Inputs == {GenBytes(a, p, n) : a \in SeedBytes, p \in Periods, n \in 0..MaxLen}

FailSets == {{}, {LZW}, {Gzip, Zlib, Flate, LZW}}

\* values written before the tagged envelope: gzip behind tag 1, the bytes
\* behind tag 0, and a value of no bytes
LegacyKinds == {"gzip", "raw", "empty"}

LegacyFrame(kind, data) ==
    CASE kind = "gzip" -> <<1>> \o compressGzip(data)
      [] kind = "raw" -> <<0>> \o data
      [] kind = "empty" -> <<>>

CodecInit ==
    /\ cin \in Inputs
    /\ cframe = <<>>
    /\ cout = <<>>
    /\ cpc = "input"
    /\ cwriter = "none"
    /\ cfail \in FailSets

\* a writer frames the value (db.Put: compression.CompressData(data))
Compress ==
    /\ UNCHANGED <<indexVars, findVars, concVars, matchVars, extVars>>
    /\ cpc = "input"
    /\ cframe' = CompressDataWith(cin, cfail)
    /\ cpc' = "framed"
    /\ cwriter' = "CompressData"
    /\ UNCHANGED <<cin, cout, cfail>>

\* the value is one an earlier version stored
WriteLegacy ==
    /\ UNCHANGED <<indexVars, findVars, concVars, matchVars, extVars>>
    /\ cpc = "input"
    /\ \E kind \in LegacyKinds :
          /\ kind = "empty" => cin = <<>>
          /\ cframe' = LegacyFrame(kind, cin)
          /\ cwriter' = kind
    /\ cpc' = "framed"
    /\ UNCHANGED <<cin, cout, cfail>>

\* a stored frame that carries a codec's tag but not a stream of that codec:
\* the codec's stream without its last byte, or the value itself
DamageKinds == {"truncated", "untagged"}

DamagedFrame(tag, kind, data) ==
    IF kind = "truncated"
    THEN <<tag>> \o Take(RunCompressor(tag, data), Len(RunCompressor(tag, data)) - 1)
    ELSE <<tag>> \o data

\* the value read is one that was damaged in the store
WriteDamaged ==
    /\ UNCHANGED <<indexVars, findVars, concVars, matchVars, extVars>>
    /\ cpc = "input"
    /\ \E tag \in {Gzip, Zlib, Flate, LZW}, kind \in DamageKinds :
          cframe' = DamagedFrame(tag, kind, cin)
    /\ cwriter' = "damaged"
    /\ cpc' = "framed"
    /\ UNCHANGED <<cin, cout, cfail>>

\* a reader decodes the frame (db.Get: compression.DecompressData(data))
Decompress ==
    /\ UNCHANGED <<indexVars, findVars, concVars, matchVars, extVars>>
    /\ cpc = "framed"
    /\ IF DecompressPanics(cframe)
       THEN cpc' = "panic" /\ cout' = cout
       ELSE cpc' = "decoded" /\ cout' = DecompressData(cframe)
    /\ UNCHANGED <<cin, cframe, cwriter, cfail>>

(***************************************************************************)
(* Go maps: a map is a function; its domain is the set of present keys.    *)
(***************************************************************************)
EmptyMap == <<>>
MapHas(m, k) == k \in DOMAIN m
MapPut(m, k, v) == [x \in (DOMAIN m) \cup {k} |-> IF x = k THEN v ELSE m[x]]
MapDel(m, k) == [x \in (DOMAIN m) \ {k} |-> m[x]]

(***************************************************************************)
(* Record types.  A record type embeds Bucket and declares tagged fields   *)
(* (example/main.go: User).  The type used here is                         *)
(*   struct { Bucket; X int `json:"x"`; Y int `json:"y"`;                   *)
(*            Tags []string `json:"tags"` }                                *)
(* Bucket holds time.Time values, whose *Location has slice fields, so     *)
(* isTypeHashable is false for it, as for the slice field Tags.            *)
(***************************************************************************)
EntityFields == <<
    [Name |-> "Bucket", Tag |-> "", Hashable |-> FALSE],
    [Name |-> "X", Tag |-> "x", Hashable |-> TRUE],
    [Name |-> "Y", Tag |-> "y", Hashable |-> TRUE],
    [Name |-> "Tags", Tag |-> "tags", Hashable |-> FALSE] >>

NumField == Len(EntityFields)

BucketName == "recs"
\* record keys, in the byte order bbolt iterates a bucket in
SortedKeys == <<"A", "B", "C", "D", "E">>
Keys == {SortedKeys[i] : i \in 1..Len(SortedKeys)}
XVals == {1, 2}
YVals == {2, 3}

\* values of Tags ([]string) and of Bucket.DeletedAt (*time.Time)
TagVals == {<<>>, <<"a">>}
DeletedVals == {"nil", "now"}

NewRecord(id, x, y, tags, deletedAt) ==
    [Bucket |-> [ID |-> id, DeletedAt |-> deletedAt], X |-> x, Y |-> y, Tags |-> tags]

\* a record with nil Tags that was not soft-deleted
NewEntity(id, x, y) == NewRecord(id, x, y, <<>>, "nil")
\* the records the callers of Save and Delete pass
OpKeys == {"A", "B"}
Entities == {NewEntity(id, x, y) : id \in OpKeys, x \in XVals, y \in YVals}

(***************************************************************************)
(* reflection.go: FieldMatcher                                             *)
(***************************************************************************)
\* the name a field is indexed and matched under: the json tag unless it is
\* empty or "-"
TagName(field) == IF field.Tag /= "" /\ field.Tag /= "-" THEN field.Tag ELSE field.Name

\* GetFieldMatcher(typ) for a type with the given fields
MatcherOf(fields) ==
    [FieldMap |-> [n \in {fields[i].Name : i \in 1..Len(fields)} |->
                      CHOOSE i \in 1..Len(fields) : fields[i].Name = n],
     JsonMap |-> [t \in {fields[i].Tag : i \in 1..Len(fields)} \ {"", "-"} |->
                      CHOOSE i \in 1..Len(fields) : fields[i].Tag = t]]

GetFieldMatcher == MatcherOf(EntityFields)

NotFound == [found |-> FALSE, value |-> 0]

\* the lookup by json name alone
GetFieldValueJsonOnly(matcher, entity, key) ==
    IF MapHas(matcher.JsonMap, key)
    THEN [found |-> TRUE, value |-> entity[EntityFields[matcher.JsonMap[key]].Name]]
    ELSE NotFound

\* the lookup with the declared names first
GetFieldValueNameFirst(matcher, entity, key) ==
    IF MapHas(matcher.FieldMap, key)
    THEN [found |-> TRUE, value |-> entity[EntityFields[matcher.FieldMap[key]].Name]]
    ELSE IF MapHas(matcher.JsonMap, key)
    THEN [found |-> TRUE, value |-> entity[EntityFields[matcher.JsonMap[key]].Name]]
    ELSE NotFound

GetFieldValue(matcher, entity, key) ==
    IF MapHas(matcher.JsonMap, key)
    THEN [found |-> TRUE, value |-> entity[EntityFields[matcher.JsonMap[key]].Name]]
    ELSE IF MapHas(matcher.FieldMap, key)
    THEN [found |-> TRUE, value |-> entity[EntityFields[matcher.FieldMap[key]].Name]]
    ELSE NotFound

\* reflect.DeepEqual of a field value and a criterion value
DeepEqual(a, b) == a = b

\* criteria are maps from a name to the expected value
RECURSIVE MatchesKeys(_, _, _, _)
MatchesKeys(entity, crit, matcher, ks) ==
    IF ks = {} THEN TRUE
    ELSE LET key == CHOOSE k \in ks : TRUE
             fv == GetFieldValue(matcher, entity, key)
         IN  IF ~fv.found \/ ~DeepEqual(fv.value, crit[key]) THEN FALSE
             ELSE MatchesKeys(entity, crit, matcher, ks \ {key})

MatchesCriteria(entity, crit, matcher) ==
    MatchesKeys(entity, crit, matcher, DOMAIN crit)

\* Calls of MatchesCriteria: records with every value of X, Y and Tags, and
\* criteria of no, one or two keys over the json names, the field names and
\* a name of no field, with values the fields take and values they do not
MatchRecords == {NewRecord("A", x, y, tags, "nil") : x \in XVals, y \in YVals, tags \in TagVals}

CriterionNames == {"x", "X", "y", "Y", "tags", "Tags", "z"}

CriterionValues(name) ==
    CASE name \in {"x", "X"} -> XVals \cup {0}
      [] name \in {"y", "Y"} -> YVals \cup {0}
      [] name \in {"tags", "Tags"} -> TagVals \cup {<<"b">>}
      [] OTHER -> {1}

OneCriterion(n) == {[k \in {n} |-> v] : v \in CriterionValues(n)}

TwoCriteria(n, m) ==
    UNION {{[k \in {n, m} |-> IF k = n THEN v ELSE w] : w \in CriterionValues(m)} :
           v \in CriterionValues(n)}

MatchCriteria ==
    {EmptyMap}
      \cup UNION {OneCriterion(n) : n \in CriterionNames}
      \cup UNION {TwoCriteria(nm[1], nm[2]) :
                     nm \in {p \in CriterionNames \X CriterionNames : p[1] /= p[2]}}

MatchIdle == mentity = NewEntity("", 0, 0) /\ mcrit = EmptyMap /\ mpc = "idle" /\ mret = FALSE

MatchInit ==
    /\ mentity \in MatchRecords
    /\ mcrit \in MatchCriteria
    /\ mpc = "call"
    /\ mret = FALSE

\* reflection.MatchesCriteria(entity, criteria, GetFieldMatcher(type))
Match ==
    /\ UNCHANGED <<codecVars, indexVars, findVars, concVars, extVars>>
    /\ mpc = "call"
    /\ mret' = MatchesCriteria(mentity, mcrit, GetFieldMatcher)
    /\ mpc' = "returned"
    /\ UNCHANGED <<mentity, mcrit>>

(***************************************************************************)
(* indexing.go                                                             *)
(***************************************************************************)
\* isHashable of the value of field i
isHashable(i) == EntityFields[i].Hashable

Contains(keys, key) == \E j \in 1..Len(keys) : keys[j] = key

\* sensitivity variant: UpdateIndex's loop body without the keyExists check
UpdateFieldNoDedup(bi, i, key, entity) ==
    LET fieldName == TagName(EntityFields[i])
        b1 == IF MapHas(bi, fieldName) THEN bi ELSE MapPut(bi, fieldName, EmptyMap)
        fv == GetFieldValue(GetFieldMatcher, entity, fieldName)
    IN  IF fv.found /\ isHashable(i)
        THEN LET fieldIndex == b1[fieldName]
                 keys == IF MapHas(fieldIndex, fv.value) THEN fieldIndex[fv.value] ELSE <<>>
             IN  MapPut(b1, fieldName, MapPut(fieldIndex, fv.value, Append(keys, key)))
        ELSE b1

\* body of the loop of UpdateIndex for field i, on the bucket's index bi
UpdateField(bi, i, key, entity) ==
    LET fieldName == TagName(EntityFields[i])
        b1 == IF MapHas(bi, fieldName) THEN bi ELSE MapPut(bi, fieldName, EmptyMap)
        fv == GetFieldValue(GetFieldMatcher, entity, fieldName)
    IN  IF fv.found /\ isHashable(i)
        THEN LET fieldIndex == b1[fieldName]
                 keys == IF MapHas(fieldIndex, fv.value) THEN fieldIndex[fv.value] ELSE <<>>
             IN  IF Contains(keys, key) THEN b1
                 ELSE MapPut(b1, fieldName, MapPut(fieldIndex, fv.value, Append(keys, key)))
        ELSE b1

RECURSIVE UpdateFields(_, _, _, _)
UpdateFields(bi, i, key, entity) ==
    IF i > NumField THEN bi
    ELSE UpdateFields(UpdateField(bi, i, key, entity), i + 1, key, entity)

UpdateIndex(idx, bucketName, key, entity) ==
    LET bi == IF MapHas(idx, bucketName) THEN idx[bucketName] ELSE EmptyMap
    IN  MapPut(idx, bucketName, UpdateFields(bi, 1, key, entity))

\* append(keys[:i], keys[i+1:]...) for the first i with keys[i] = key
RemoveFirst(keys, key) ==
    IF Contains(keys, key)
    THEN LET i == CHOOSE j \in 1..Len(keys) :
                     keys[j] = key /\ \A h \in 1..(j - 1) : keys[h] /= key
         IN  SubSeq(keys, 1, i - 1) \o SubSeq(keys, i + 1, Len(keys))
    ELSE keys

\* sensitivity variant: RemoveFromIndex's loop body keeping emptied key lists
RemoveFieldNoPrune(bi, i, key, entity) ==
    LET fieldName == TagName(EntityFields[i])
        fv == GetFieldValue(GetFieldMatcher, entity, fieldName)
    IN  IF MapHas(bi, fieldName) /\ fv.found /\ isHashable(i)
           /\ MapHas(bi[fieldName], fv.value)
        THEN MapPut(bi, fieldName,
                    MapPut(bi[fieldName], fv.value, RemoveFirst(bi[fieldName][fv.value], key)))
        ELSE bi

\* body of the loop of RemoveFromIndex for field i
RemoveField(bi, i, key, entity) ==
    LET fieldName == TagName(EntityFields[i])
        fv == GetFieldValue(GetFieldMatcher, entity, fieldName)
    IN  IF MapHas(bi, fieldName) /\ fv.found /\ isHashable(i)
           /\ MapHas(bi[fieldName], fv.value)
        THEN LET fieldIndex == bi[fieldName]
                 left == RemoveFirst(fieldIndex[fv.value], key)
             IN  IF Len(left) = 0
                 THEN MapPut(bi, fieldName, MapDel(fieldIndex, fv.value))
                 ELSE MapPut(bi, fieldName, MapPut(fieldIndex, fv.value, left))
        ELSE bi

RECURSIVE RemoveFields(_, _, _, _)
RemoveFields(bi, i, key, entity) ==
    IF i > NumField THEN bi
    ELSE RemoveFields(RemoveField(bi, i, key, entity), i + 1, key, entity)

\* RemoveFromIndex dropping the index of a bucket whose key lists are all gone
RemoveFromIndexDropEmpty(idx, bucketName, key, entity) ==
    IF ~MapHas(idx, bucketName) THEN idx
    ELSE LET bi == RemoveFields(idx[bucketName], 1, key, entity)
         IN  IF \A f \in DOMAIN bi : bi[f] = EmptyMap
             THEN MapDel(idx, bucketName)
             ELSE MapPut(idx, bucketName, bi)

RemoveFromIndex(idx, bucketName, key, entity) ==
    IF ~MapHas(idx, bucketName) THEN idx
    ELSE MapPut(idx, bucketName, RemoveFields(idx[bucketName], 1, key, entity))

NoKeys == [keys |-> <<>>, found |-> FALSE]

GetIndexedKeys(idx, bucketName, field, value) ==
    IF ~MapHas(idx, bucketName) THEN NoKeys
    ELSE IF ~MapHas(idx[bucketName], field) THEN NoKeys
    ELSE IF ~MapHas(idx[bucketName][field], value) THEN NoKeys
    ELSE [keys |-> idx[bucketName][field][value], found |-> TRUE]

HasIndex(idx, bucketName) == MapHas(idx, bucketName)

\* whether a criterion value for the field is hashable: a criterion carries a
\* value of the type of the field it names
ValueHashable(field) ==
    \A i \in 1..NumField : TagName(EntityFields[i]) = field => isHashable(i)

\* keys, keyExists := fieldIndex[value] with a value of a slice or map type:
\* the map lookup panics (hash of unhashable type), also on an empty map
GetIndexedKeysPanics(idx, bucketName, field) ==
    /\ MapHas(idx, bucketName)
    /\ MapHas(idx[bucketName], field)
    /\ ~ValueHashable(field)

(***************************************************************************)
(* Serialization (jsoniter, a library): a record is written as             *)
(* '{' id x y tags deleted_at '}' with one byte per value; anything else   *)
(* fails to parse.                                                         *)
(***************************************************************************)
TagsCode == [t \in TagVals |-> IF t = <<>> THEN 110 ELSE 97]
DeletedCode == [d \in DeletedVals |-> IF d = "nil" THEN 110 ELSE 116]

KeyCode == [k \in Keys |-> 64 + (CHOOSE i \in 1..Len(SortedKeys) : SortedKeys[i] = k)]

Marshal(entity) ==
    <<123, KeyCode[entity.Bucket.ID], 48 + entity.X, 48 + entity.Y,
      TagsCode[entity.Tags], DeletedCode[entity.Bucket.DeletedAt], 125>>

\* the bytes without the white space that follows the value
TrimSpace(bytes) ==
    LET keep == {i \in 1..Len(bytes) : bytes[i] /= 32}
    IN  IF keep = {} THEN <<>>
        ELSE SubSeq(bytes, 1, CHOOSE i \in keep : \A j \in keep : j <= i)

ParseRecord(bytes) ==
    IF /\ Len(bytes) = 7
       /\ bytes[1] = 123
       /\ bytes[7] = 125
       /\ \E k \in Keys : KeyCode[k] = bytes[2]
       /\ bytes[3] \in 48..57
       /\ bytes[4] \in 48..57
       /\ \E t \in TagVals : TagsCode[t] = bytes[5]
       /\ \E d \in DeletedVals : DeletedCode[d] = bytes[6]
    THEN [err |-> "nil",
          entity |-> NewRecord(CHOOSE k \in Keys : KeyCode[k] = bytes[2],
                               bytes[3] - 48, bytes[4] - 48,
                               CHOOSE t \in TagVals : TagsCode[t] = bytes[5],
                               CHOOSE d \in DeletedVals : DeletedCode[d] = bytes[6])]
    ELSE [err |-> "unmarshal", entity |-> NewEntity("", 0, 0)]

\* js.Unmarshal: the value, then nothing but white space
Unmarshal(bytes) == ParseRecord(TrimSpace(bytes))

(***************************************************************************)
(* database: DB.Put, DB.Get, DB.Delete, DB.ForEach on a store              *)
(* st = [bucket name -> [key -> stored bytes]]                             *)
(***************************************************************************)
\* db.Put creating the bucket when it is missing
PutCreateBucket(st, bucketName, key, value) ==
    IF key = "" THEN [store |-> st, err |-> "key cannot be empty"]
    ELSE [store |-> MapPut(st, bucketName,
                           MapPut(IF MapHas(st, bucketName) THEN st[bucketName] ELSE EmptyMap,
                                  key, CompressData(Marshal(value)))),
          err |-> "nil"]

Put(st, bucketName, key, value) ==
    IF key = "" THEN [store |-> st, err |-> "key cannot be empty"]
    ELSE IF ~MapHas(st, bucketName) THEN [store |-> st, err |-> "ErrBucketMissing"]
    ELSE [store |-> MapPut(st, bucketName,
                           MapPut(st[bucketName], key, CompressData(Marshal(value)))),
          err |-> "nil"]

Get(st, bucketName, key) ==
    IF key = "" THEN [err |-> "key cannot be empty", entity |-> NewEntity("", 0, 0)]
    ELSE IF ~MapHas(st, bucketName)
    THEN [err |-> "ErrBucketMissing", entity |-> NewEntity("", 0, 0)]
    ELSE IF ~MapHas(st[bucketName], key)
    THEN [err |-> "ErrNotFound", entity |-> NewEntity("", 0, 0)]
    ELSE IF Len(st[bucketName][key]) = 0
    THEN [err |-> "ErrInvalidData", entity |-> NewEntity("", 0, 0)]
    ELSE Unmarshal(DecompressData(st[bucketName][key]))

Delete(st, bucketName, key) ==
    IF key = "" THEN [store |-> st, err |-> "key cannot be empty"]
    ELSE IF ~MapHas(st, bucketName) THEN [store |-> st, err |-> "ErrBucketMissing"]
    ELSE [store |-> MapPut(st, bucketName, MapDel(st[bucketName], key)), err |-> "nil"]

\* the keys of a bucket in iteration order
RECURSIVE KeysInOrder(_, _)
KeysInOrder(b, i) ==
    IF i > Len(SortedKeys) THEN <<>>
    ELSE (IF MapHas(b, SortedKeys[i]) THEN <<SortedKeys[i]>> ELSE <<>>)
           \o KeysInOrder(b, i + 1)

\* DB.ForEach: the values handed to fn, each already passed through
\* DecompressData; none when the bucket is missing (ErrBucketMissing)
ForEach(st, bucketName) ==
    IF ~MapHas(st, bucketName) THEN [err |-> "ErrBucketMissing", values |-> <<>>]
    ELSE LET ks == KeysInOrder(st[bucketName], 1)
         IN  [err |-> "nil",
              values |-> [i \in 1..Len(ks) |-> DecompressData(st[bucketName][ks[i]])]]

(***************************************************************************)
(* bucket: FindWhereInDatabase, the index path                             *)
(***************************************************************************)
\* the loop appending the record whether or not db.Get returned an error
RECURSIVE FetchAllKeepFailed(_, _, _)
FetchAllKeepFailed(st, bucketName, keys) ==
    IF keys = <<>> THEN <<>>
    ELSE <<Get(st, bucketName, Head(keys)).entity>>
           \o FetchAllKeepFailed(st, bucketName, Tail(keys))

\* the loop "for _, key := range keys": records whose re-fetch fails are skipped
RECURSIVE FetchAll(_, _, _)
FetchAll(st, bucketName, keys) ==
    IF keys = <<>> THEN <<>>
    ELSE LET g == Get(st, bucketName, Head(keys))
         IN  (IF g.err = "nil" THEN <<g.entity>> ELSE <<>>)
               \o FetchAll(st, bucketName, Tail(keys))

\* the loop over a of intersectStringSlices; bMap is the set of keys still in the map
RECURSIVE IntersectLoop(_, _)
IntersectLoop(a, bMap) ==
    IF a = <<>> THEN <<>>
    ELSE IF Head(a) \in bMap
         THEN <<Head(a)>> \o IntersectLoop(Tail(a), bMap \ {Head(a)})
         ELSE IntersectLoop(Tail(a), bMap)

Range(q) == {q[i] : i \in 1..Len(q)}

\* sensitivity variant: the first slice, unfiltered
intersectKeepFirst(a, b) ==
    IF Len(a) = 0 \/ Len(b) = 0 THEN <<>> ELSE a

intersectStringSlices(a, b) ==
    IF Len(a) = 0 \/ Len(b) = 0 THEN <<>>
    ELSE IF Len(b) < Len(a) THEN IntersectLoop(b, Range(a))
    ELSE IntersectLoop(a, Range(b))

\* the loop "for field, value := range criteria" of the multi-criteria branch;
\* order is the order in which the map iteration yields the criteria.
\* kind: "empty" (early return of an empty result), "scan" (candidateKeys = nil),
\* "keys" (candidateKeys to resolve), "panic" (a lookup panicked)
RECURSIVE ProbeLoop(_, _, _, _, _, _)
ProbeLoop(idx, bucketName, crit, order, candidateKeys, firstField) ==
    IF order = <<>> THEN [kind |-> "keys", keys |-> candidateKeys]
    ELSE IF GetIndexedKeysPanics(idx, bucketName, Head(order))
    THEN [kind |-> "panic", keys |-> <<>>]
    ELSE LET r == GetIndexedKeys(idx, bucketName, Head(order), crit[Head(order)])
         IN  IF ~r.found THEN [kind |-> "scan", keys |-> <<>>]
             ELSE IF firstField
                  THEN ProbeLoop(idx, bucketName, crit, Tail(order), r.keys, FALSE)
             ELSE LET c == intersectStringSlices(candidateKeys, r.keys)
                  IN  IF Len(c) = 0 THEN [kind |-> "empty", keys |-> <<>>]
                      ELSE ProbeLoop(idx, bucketName, crit, Tail(order), c, FALSE)

\* lines 98-146: path "index" returns results with a nil error; path "scan"
\* falls through to the scan; path "panic" does not return
IndexPath(idx, st, bucketName, crit, order) ==
    LET n == Cardinality(DOMAIN crit)
        scan == [path |-> "scan", results |-> <<>>, candidateKeys |-> <<>>]
    IN  IF ~HasIndex(idx, bucketName) \/ n = 0 THEN scan
        ELSE IF n = 1 /\ GetIndexedKeysPanics(idx, bucketName, order[1])
        THEN [path |-> "panic", results |-> <<>>, candidateKeys |-> <<>>]
        ELSE IF n = 1
        THEN LET r == GetIndexedKeys(idx, bucketName, order[1], crit[order[1]])
             IN  IF r.found
                 THEN [path |-> "index", results |-> FetchAll(st, bucketName, r.keys),
                       candidateKeys |-> r.keys]
                 ELSE scan
        ELSE LET p == ProbeLoop(idx, bucketName, crit, order, <<>>, TRUE)
             IN  IF p.kind = "empty"
                 THEN [path |-> "index", results |-> <<>>, candidateKeys |-> <<>>]
                 ELSE IF p.kind = "keys"
                 THEN [path |-> "index", results |-> FetchAll(st, bucketName, p.keys),
                       candidateKeys |-> p.keys]
                 ELSE IF p.kind = "panic"
                 THEN [path |-> "panic", results |-> <<>>, candidateKeys |-> <<>>]
                 ELSE scan

(***************************************************************************)
(* bucket: FindWhereInDatabase, what a scan worker does with one work item *)
(***************************************************************************)
\* lines 196-232: the worker's own handling of tags 0 and 1, else DecompressData
WorkerDecode(data) ==
    IF data[1] = 0 THEN Tail(data)
    ELSE IF data[1] = 1
    THEN LET r == GzipDecode(Tail(data)) IN IF r.ok THEN r.out ELSE data
    ELSE DecompressData(data)

\* sensitivity variant: a worker that ignores the decoder's error
WorkItemKeepFailed(data, crit) ==
    IF Len(data) = 0 THEN <<>>
    ELSE LET u == Unmarshal(WorkerDecode(data))
         IN  IF MatchesCriteria(u.entity, crit, GetFieldMatcher) THEN <<u.entity>> ELSE <<>>

\* lines 191-247: the records one work item adds to the worker's localResults
WorkItem(data, crit) ==
    IF Len(data) = 0 THEN <<>>
    ELSE LET u == Unmarshal(WorkerDecode(data))
         IN  IF u.err /= "nil" THEN <<>>
             ELSE IF MatchesCriteria(u.entity, crit, GetFieldMatcher)
                  THEN <<u.entity>> ELSE <<>>

(***************************************************************************)
(* Index maintenance: Save and Delete through the core                     *)
(***************************************************************************)
MaxOps == 4

\* the names under which hashable fields are indexed
IndexableNames == {TagName(EntityFields[i]) : i \in {j \in 1..NumField : isHashable(j)}}

\* the key list GetIndexedKeys returns for each indexable field at the
\* record's own value, <<>> when not found
KeysAt(idx, entity) ==
    [f \in IndexableNames |->
        GetIndexedKeys(idx, BucketName, f,
                       GetFieldValue(GetFieldMatcher, entity, f).value).keys]

NoOp == [op |-> "none", key |-> "", entity |-> NewEntity("", 0, 0), err |-> "nil",
         preKeys |-> [f \in IndexableNames |-> <<>>]]

IndexInit ==
    /\ bucketIndexes = EmptyMap
    /\ store = MapPut(EmptyMap, BucketName, EmptyMap)
    /\ nops = 0
    /\ last = NoOp

\* a database in which the bucket was not created
NoBucketInit ==
    /\ bucketIndexes = EmptyMap
    /\ store = EmptyMap
    /\ nops = 0
    /\ last = NoOp

\* Bucket.SaveToDatabase (also reached from Save, Create and SoftDelete):
\* UpdateIndex, then db.Put
SaveToDatabase(entity) ==
    LET id == entity.Bucket.ID
        r == Put(store, BucketName, id, entity)
    IN  /\ nops < MaxOps
        /\ UNCHANGED <<codecVars, findVars, concVars, matchVars, extVars>>
        /\ bucketIndexes' = UpdateIndex(bucketIndexes, BucketName, id, entity)
        /\ store' = r.store
        /\ nops' = nops + 1
        /\ last' = [op |-> "Save", key |-> id, entity |-> entity, err |-> r.err,
                    preKeys |-> KeysAt(bucketIndexes, entity)]

\* Bucket.DeleteFromDatabase: RemoveFromIndex with the caller's record, then db.Delete
DeleteFromDatabase(entity) ==
    LET id == entity.Bucket.ID
        r == Delete(store, BucketName, id)
    IN  /\ nops < MaxOps
        /\ UNCHANGED <<codecVars, findVars, concVars, matchVars, extVars>>
        /\ bucketIndexes' = RemoveFromIndex(bucketIndexes, BucketName, id, entity)
        /\ store' = r.store
        /\ nops' = nops + 1
        /\ last' = [op |-> "Delete", key |-> id, entity |-> entity, err |-> r.err,
                    preKeys |-> KeysAt(bucketIndexes, entity)]

\* Bucket.SoftDeleteFromDatabase: b.DeletedAt = &now, then SaveToDatabase
\* (UpdateIndex, then db.Put)
SoftDeleteFromDatabase(entity) ==
    LET id == entity.Bucket.ID
        marked == [entity EXCEPT !.Bucket.DeletedAt = "now"]
        r == Put(store, BucketName, id, marked)
    IN  /\ nops < MaxOps
        /\ UNCHANGED <<codecVars, findVars, concVars, matchVars, extVars>>
        /\ bucketIndexes' = UpdateIndex(bucketIndexes, BucketName, id, marked)
        /\ store' = r.store
        /\ nops' = nops + 1
        /\ last' = [op |-> "SoftDelete", key |-> id, entity |-> marked, err |-> r.err,
                    preKeys |-> KeysAt(bucketIndexes, entity)]

(***************************************************************************)
(* FindWhereInDatabase: planner, worker pool, producer, collector          *)
(***************************************************************************)
MaxItems == 3
MaxCPU == 2
WorkerCap == 6

\* the pool without the cap
NumWorkersUncapped(cpu) == cpu

\* numWorkers := runtime.NumCPU(); if numWorkers > 6 { numWorkers = 6 }
NumWorkers(cpu) == IF cpu > WorkerCap THEN WorkerCap ELSE cpu

\* criteria maps over the json names of X and Y
CriteriaSet ==
    {EmptyMap}
      \cup {[k \in {"x"} |-> v] : v \in XVals}
      \cup {[k \in {"y"} |-> w] : w \in YVals}
      \cup {[k \in {"x", "y"} |-> IF k = "x" THEN vw[1] ELSE vw[2]] : vw \in XVals \X YVals}

\* the orders in which ranging over a map can yield its keys
Orders(m) ==
    {o \in [1..Cardinality(DOMAIN m) -> DOMAIN m] :
        \A i, j \in 1..Cardinality(DOMAIN m) : i /= j => o[i] /= o[j]}

\* the <<X, Y>> values of the records a bucket is filled with
ScanChoices == {<<1, 2>>, <<1, 3>>}

StoredEntity(es, i) == NewEntity(SortedKeys[i], es[i][1], es[i][2])

\* the bucket after db.Put of records 1..n
RECURSIVE FillStore(_, _)
FillStore(es, n) ==
    IF n = 0 THEN MapPut(EmptyMap, BucketName, EmptyMap)
    ELSE Put(FillStore(es, n - 1), BucketName, SortedKeys[n], StoredEntity(es, n)).store

\* the index after UpdateIndex of records 1..j
RECURSIVE FillIndex(_, _)
FillIndex(es, j) ==
    IF j = 0 THEN EmptyMap
    ELSE UpdateIndex(FillIndex(es, j - 1), BucketName, SortedKeys[j], StoredEntity(es, j))

Workers == 1..numWorkers

NoRet == [path |-> "none", results |-> <<>>, err |-> "nil", candidateKeys |-> <<>>]

\* the scan's goroutines before FindWhereInDatabase is called
FindIdle ==
    /\ fpc = "start"
    /\ ret = NoRet
    /\ prod = "idle"
    /\ produced = 0
    /\ prodTimedOut = FALSE
    /\ workChan = <<>>
    /\ wpc = [w \in Workers |-> "idle"]
    /\ localResults = [w \in Workers |-> <<>>]
    /\ consumed = [w \in Workers |-> <<>>]
    /\ resultChan = <<>>
    /\ resultClosed = FALSE
    /\ results = <<>>

\* a bucket of n records, the first j of them saved through the core and the
\* others written with db.Put alone; a criteria map; a number of CPUs
FindInit ==
    /\ \E n \in 0..MaxItems : \E es \in [1..n -> ScanChoices] : \E j \in 0..n :
          /\ store = FillStore(es, n)
          /\ bucketIndexes = FillIndex(es, j)
    /\ criteria \in CriteriaSet
    /\ \E cpu \in 1..MaxCPU : numWorkers = NumWorkers(cpu)
    /\ FindIdle

\* the kinds of value a bucket can hold: a record written by db.Put, the JSON
\* of a record of another type (x holds a string), and an empty value
RawChoices == {"record", "corrupt", "empty"}

CorruptJSON(key) == <<123, KeyCode[key], 115, 50, 110, 110, 125>>

RawValue(kind, key) ==
    CASE kind = "record" -> CompressData(Marshal(NewEntity(key, 1, 2)))
      [] kind = "corrupt" -> CompressData(CorruptJSON(key))
      [] kind = "empty" -> <<>>

\* the bucket after values of kinds ks[1..n] were written under the first n keys
RECURSIVE FillRaw(_, _)
FillRaw(ks, n) ==
    IF n = 0 THEN MapPut(EmptyMap, BucketName, EmptyMap)
    ELSE LET st == FillRaw(ks, n - 1)
         IN  MapPut(st, BucketName,
                    MapPut(st[BucketName], SortedKeys[n], RawValue(ks[n], SortedKeys[n])))

RawCriteria == {EmptyMap, [k \in {"x"} |-> 1]}

\* a bucket without index holding values of any kind, or no bucket at all
\* (with the index a SaveToDatabase leaves when its db.Put fails on the
\* missing bucket, or none)
RawInit ==
    /\ \/ /\ \E n \in 0..MaxItems : \E ks \in [1..n -> RawChoices] : store = FillRaw(ks, n)
          /\ bucketIndexes = EmptyMap
       \/ /\ store = EmptyMap
          /\ bucketIndexes \in {EmptyMap,
                                UpdateIndex(EmptyMap, BucketName, "A", NewEntity("A", 1, 2))}
    /\ criteria \in RawCriteria
    /\ \E cpu \in 1..MaxCPU : numWorkers = NumWorkers(cpu)
    /\ FindIdle

\* criteria on the slice-typed field, alone and with a criterion on x
TagCriteria ==
    {[k \in {"tags"} |-> t] : t \in TagVals}
      \cup {[k \in {"x", "tags"} |-> IF k = "x" THEN 1 ELSE <<"a">>]}

TaggedEntity(ts, i) == NewRecord(SortedKeys[i], 1, 2, ts[i], "nil")

RECURSIVE FillTaggedStore(_, _)
FillTaggedStore(ts, n) ==
    IF n = 0 THEN MapPut(EmptyMap, BucketName, EmptyMap)
    ELSE Put(FillTaggedStore(ts, n - 1), BucketName, SortedKeys[n], TaggedEntity(ts, n)).store

RECURSIVE FillTaggedIndex(_, _)
FillTaggedIndex(ts, j) ==
    IF j = 0 THEN EmptyMap
    ELSE UpdateIndex(FillTaggedIndex(ts, j - 1), BucketName, SortedKeys[j], TaggedEntity(ts, j))

\* a bucket of n records with Tags, the first j of them saved through the
\* core, and a query on the field
TagsInit ==
    /\ \E n \in 1..MaxItems : \E ts \in [1..n -> TagVals] : \E j \in 0..n :
          /\ store = FillTaggedStore(ts, n)
          /\ bucketIndexes = FillTaggedIndex(ts, j)
    /\ criteria \in TagCriteria
    /\ \E cpu \in 1..MaxCPU : numWorkers = NumWorkers(cpu)
    /\ FindIdle

\* criteria of three keys: the json names of X and Y and the field name of X,
\* under which nothing is indexed
PlanCriteria ==
    {[k \in {"x", "y", "X"} |-> IF k = "y" THEN vw[2] ELSE vw[1]] : vw \in XVals \X YVals}

\* the <<X, Y>> values of the records of a bucket queried with them
PlanChoices == {<<1, 2>>, <<1, 3>>, <<2, 3>>}

\* a bucket of n records, the first j of them saved through the core and the
\* others written with db.Put alone, and a query of three criteria
PlanInit ==
    /\ \E n \in 1..MaxItems : \E es \in [1..n -> PlanChoices] : \E j \in 0..n :
          /\ store = FillStore(es, n)
          /\ bucketIndexes = FillIndex(es, j)
    /\ criteria \in PlanCriteria
    /\ numWorkers = 1
    /\ FindIdle

\* the values db.ForEach hands to the producer's callback
Values == ForEach(store, BucketName).values

\* sensitivity variant: the producer's error returned along with the results
ClosedReturnWithError(merged, timedOut) ==
    [path |-> "scan", results |-> merged,
     err |-> IF timedOut THEN "timeout writing to work channel" ELSE "nil",
     candidateKeys |-> <<>>]

\* sensitivity variant: the timeout error returned along with what was merged
TimeoutReturnMerged(merged) ==
    [path |-> "scan", results |-> merged, err |-> "timeout waiting for results",
     candidateKeys |-> <<>>]

\* return results, nil (line 284)
ClosedReturn(merged, timedOut) ==
    [path |-> "scan", results |-> merged, err |-> "nil", candidateKeys |-> <<>>]

\* return nil, fmt.Errorf("timeout waiting for results") (line 290)
TimeoutReturn(merged) ==
    [path |-> "scan", results |-> <<>>, err |-> "timeout waiting for results",
     candidateKeys |-> <<>>]

scanVars == <<prod, produced, prodTimedOut, workChan, wpc, localResults, consumed,
              resultChan, resultClosed, results>>

\* lines 98-257: the index path returns; otherwise the workers, the producer
\* and the closer are started and the caller becomes the collector
Plan ==
    /\ UNCHANGED <<codecVars, indexVars, concVars, matchVars, extVars>>
    /\ fpc = "start"
    /\ \E order \in Orders(criteria) :
         LET p == IndexPath(bucketIndexes, store, BucketName, criteria, order)
         IN  IF p.path = "index"
             THEN /\ ret' = [path |-> "index", results |-> p.results, err |-> "nil",
                             candidateKeys |-> p.candidateKeys]
                  /\ fpc' = "returned"
                  /\ UNCHANGED <<prod, wpc>>
             ELSE IF p.path = "panic"
             THEN /\ fpc' = "panic"
                  /\ UNCHANGED <<ret, prod, wpc>>
             ELSE /\ fpc' = "collect"
                  /\ prod' = "run"
                  /\ wpc' = [w \in Workers |-> "run"]
                  /\ UNCHANGED ret
    /\ UNCHANGED <<criteria, numWorkers, produced, prodTimedOut, workChan, localResults,
                   consumed, resultChan, resultClosed, results>>

\* producer: case workChan <- dataCopy (the queue holds 2*numWorkers items)
ProducerSend ==
    /\ UNCHANGED <<codecVars, indexVars, concVars, matchVars, extVars>>
    /\ prod = "run"
    /\ produced < Len(Values)
    /\ Len(workChan) < 2 * numWorkers
    /\ workChan' = Append(workChan, produced + 1)
    /\ produced' = produced + 1
    /\ UNCHANGED <<criteria, numWorkers, fpc, ret, prod, prodTimedOut, wpc, localResults,
                   consumed, resultChan, resultClosed, results>>

\* the producer's timeout without the deferred close(workChan)
ProducerTimeoutNoClose ==
    /\ UNCHANGED <<codecVars, indexVars, concVars, matchVars, extVars>>
    /\ prod = "run"
    /\ produced < Len(Values)
    /\ Len(workChan) = 2 * numWorkers
    /\ prodTimedOut' = TRUE
    /\ prod' = "returned"
    /\ UNCHANGED <<criteria, numWorkers, fpc, ret, produced, workChan, wpc, localResults,
                   consumed, resultChan, resultClosed, results>>

\* producer: case <-time.After(10 * time.Second): the callback returns an
\* error, ForEach stops, the error is dropped and the deferred close runs
ProducerTimeout ==
    /\ UNCHANGED <<codecVars, indexVars, concVars, matchVars, extVars>>
    /\ prod = "run"
    /\ produced < Len(Values)
    /\ Len(workChan) = 2 * numWorkers
    /\ prodTimedOut' = TRUE
    /\ prod' = "closed"
    /\ UNCHANGED <<criteria, numWorkers, fpc, ret, produced, workChan, wpc, localResults,
                   consumed, resultChan, resultClosed, results>>

\* producer: ForEach is through, defer close(workChan)
ProducerClose ==
    /\ UNCHANGED <<codecVars, indexVars, concVars, matchVars, extVars>>
    /\ prod = "run"
    /\ produced = Len(Values)
    /\ prod' = "closed"
    /\ UNCHANGED <<criteria, numWorkers, fpc, ret, produced, prodTimedOut, workChan, wpc,
                   localResults, consumed, resultChan, resultClosed, results>>

\* worker: one iteration of "for data := range workChan"
WorkerRecv(w) ==
    /\ UNCHANGED <<codecVars, indexVars, concVars, matchVars, extVars>>
    /\ wpc[w] = "run"
    /\ workChan /= <<>>
    /\ workChan' = Tail(workChan)
    /\ consumed' = [consumed EXCEPT ![w] = Append(@, Head(workChan))]
    /\ localResults' = [localResults EXCEPT
                          ![w] = @ \o WorkItem(Values[Head(workChan)], criteria)]
    /\ UNCHANGED <<criteria, numWorkers, fpc, ret, prod, produced, prodTimedOut, wpc,
                   resultChan, resultClosed, results>>

\* worker: the range loop ends on the closed and drained channel; the local
\* buffer (nil when empty) is sent and wg.Done runs
WorkerFinish(w) ==
    /\ UNCHANGED <<codecVars, indexVars, concVars, matchVars, extVars>>
    /\ wpc[w] = "run"
    /\ workChan = <<>>
    /\ prod = "closed"
    /\ resultChan' = Append(resultChan, localResults[w])
    /\ wpc' = [wpc EXCEPT ![w] = "done"]
    /\ UNCHANGED <<criteria, numWorkers, fpc, ret, prod, produced, prodTimedOut, workChan,
                   localResults, consumed, resultClosed, results>>

\* the closer without wg.Wait(): the channel is closed once a worker is done
CloseResultsEarly ==
    /\ UNCHANGED <<codecVars, indexVars, concVars, matchVars, extVars>>
    /\ \E w \in Workers : wpc[w] = "done"
    /\ ~resultClosed
    /\ resultClosed' = TRUE
    /\ UNCHANGED <<criteria, numWorkers, fpc, ret, prod, produced, prodTimedOut, workChan,
                   wpc, localResults, consumed, resultChan, results>>

\* closer: wg.Wait(); close(resultChan)
CloseResults ==
    /\ UNCHANGED <<codecVars, indexVars, concVars, matchVars, extVars>>
    /\ \A w \in Workers : wpc[w] = "done"
    /\ ~resultClosed
    /\ resultClosed' = TRUE
    /\ UNCHANGED <<criteria, numWorkers, fpc, ret, prod, produced, prodTimedOut, workChan,
                   wpc, localResults, consumed, resultChan, results>>

\* collector: case localResults, ok := <-resultChan with ok
CollectorRecv ==
    /\ UNCHANGED <<codecVars, indexVars, concVars, matchVars, extVars>>
    /\ fpc = "collect"
    /\ resultChan /= <<>>
    /\ results' = results \o Head(resultChan)
    /\ resultChan' = Tail(resultChan)
    /\ UNCHANGED <<criteria, numWorkers, fpc, ret, prod, produced, prodTimedOut, workChan,
                   wpc, localResults, consumed, resultClosed>>

\* collector: the receive reports the channel closed
CollectorClosed ==
    /\ UNCHANGED <<codecVars, indexVars, concVars, matchVars, extVars>>
    /\ fpc = "collect"
    /\ resultChan = <<>>
    /\ resultClosed
    /\ ret' = ClosedReturn(results, prodTimedOut)
    /\ fpc' = "returned"
    /\ UNCHANGED <<criteria, numWorkers, scanVars>>

\* collector: case <-timeout
CollectorTimeout ==
    /\ UNCHANGED <<codecVars, indexVars, concVars, matchVars, extVars>>
    /\ fpc = "collect"
    /\ ret' = TimeoutReturn(results)
    /\ fpc' = "returned"
    /\ UNCHANGED <<criteria, numWorkers, scanVars>>

NextFind ==
    \/ Plan
    \/ ProducerSend
    \/ ProducerTimeout
    \/ ProducerClose
    \/ \E w \in Workers : WorkerRecv(w)
    \/ \E w \in Workers : WorkerFinish(w)
    \/ CloseResults
    \/ CollectorRecv
    \/ CollectorClosed
    \/ CollectorTimeout

(***************************************************************************)
(* Threads: Save, Delete and FindWhere (index path) statement by statement,*)
(* with indexing.indexMutex and the store's transactions                   *)
(***************************************************************************)
MaxThreads == 2

Threads == 1..MaxThreads

\* the statements of SaveToDatabase in program order: UpdateIndex (Lock, body,
\* deferred Unlock), then db.Put (db.Update, b.Put, commit on return)
SaveProgramLockedPut == <<"Lock", "UpdateIndex", "Update", "Put", "Commit", "Unlock">>

\* SaveToDatabase writing to the store before it updates the index
SaveProgramStoreFirst == <<"Update", "Put", "Commit", "Lock", "UpdateIndex", "Unlock">>

SaveProgram == <<"Lock", "UpdateIndex", "Unlock", "Update", "Put", "Commit">>

\* DeleteFromDatabase: RemoveFromIndex, then db.Delete
DeleteProgram == <<"Lock", "RemoveFromIndex", "Unlock", "Update", "Delete", "Commit">>

\* FindWhereInDatabase with one criterion: HasIndex, GetIndexedKeys, then a
\* db.Get (db.View) per key
FindProgram == <<"RLock", "HasIndex", "RUnlock", "RLock", "GetIndexedKeys", "RUnlock",
                 "View", "Get", "EndView">>

Program(kind) ==
    CASE kind = "Save" -> SaveProgram
      [] kind = "Delete" -> DeleteProgram
      [] kind = "Find" -> FindProgram
      [] OTHER -> <<>>

\* the calls a thread makes: records with x = 1, y = 2 under keys A and B,
\* and the query {x: 1}
ThreadOps ==
    {[kind |-> "Save", key |-> k, entity |-> NewEntity(k, 1, 2)] : k \in OpKeys}
      \cup {[kind |-> "Delete", key |-> "A", entity |-> NewEntity("A", 1, 2)],
            [kind |-> "Find", key |-> "", entity |-> NewEntity("", 0, 0)]}

NoThreadOp == [kind |-> "none", key |-> "", entity |-> NewEntity("", 0, 0)]

NoLocal == [found |-> TRUE, keys |-> <<>>, snap |-> EmptyMap, results |-> <<>>, err |-> "nil"]

Unlocked == [w |-> 0, r |-> {}]

ConcIdle ==
    /\ indexMutex = Unlocked
    /\ dbTx = Unlocked
    /\ top = [t \in Threads |-> NoThreadOp]
    /\ tpc = [t \in Threads |-> 1]
    /\ tlocal = [t \in Threads |-> NoLocal]

\* an empty bucket, the bucket after SaveToDatabase(A), or a database
\* without the bucket; every thread about to make one call
ConcInit ==
    /\ indexMutex = Unlocked
    /\ dbTx = Unlocked
    /\ top \in [Threads -> ThreadOps]
    /\ tpc = [t \in Threads |-> 1]
    /\ tlocal = [t \in Threads |-> NoLocal]
    /\ \/ /\ bucketIndexes = EmptyMap
          /\ store = MapPut(EmptyMap, BucketName, EmptyMap)
       \/ /\ bucketIndexes = UpdateIndex(EmptyMap, BucketName, "A", NewEntity("A", 1, 2))
          /\ store = Put(MapPut(EmptyMap, BucketName, EmptyMap), BucketName, "A",
                         NewEntity("A", 1, 2)).store
       \/ /\ bucketIndexes = EmptyMap
          /\ store = EmptyMap
    /\ nops = 0
    /\ last = NoOp

Finished(t) == tpc[t] > Len(Program(top[t].kind))

\* the statement thread t is at
Stmt(t) == IF Finished(t) THEN "done" ELSE Program(top[t].kind)[tpc[t]]

End(t) == Len(Program(top[t].kind)) + 1

HoldsIndexLock(t) == indexMutex.w = t \/ t \in indexMutex.r

InTx(t) == dbTx.w = t \/ t \in dbTx.r

\* whether the statement thread t is at can be executed now
CanStep(t) ==
    CASE Stmt(t) = "done" -> FALSE
      [] Stmt(t) = "Lock" -> indexMutex.w = 0 /\ indexMutex.r = {}
      [] Stmt(t) = "RLock" -> indexMutex.w = 0
      [] Stmt(t) = "Update" -> dbTx.w = 0
      [] OTHER -> TRUE

\* the variables no statement of a thread changes
ThreadFrame == UNCHANGED <<codecVars, findVars, matchVars, extVars, nops, last, top>>

\* indexMutex.Lock()
IndexLock(t) ==
    /\ ThreadFrame
    /\ Stmt(t) = "Lock" /\ CanStep(t)
    /\ indexMutex' = [indexMutex EXCEPT !.w = t]
    /\ tpc' = [tpc EXCEPT ![t] = @ + 1]
    /\ UNCHANGED <<bucketIndexes, store, dbTx, tlocal>>

\* the body of UpdateIndex
DoUpdateIndex(t) ==
    /\ ThreadFrame
    /\ Stmt(t) = "UpdateIndex"
    /\ bucketIndexes' = UpdateIndex(bucketIndexes, BucketName, top[t].key, top[t].entity)
    /\ tpc' = [tpc EXCEPT ![t] = @ + 1]
    /\ UNCHANGED <<store, indexMutex, dbTx, tlocal>>

\* the body of RemoveFromIndex
DoRemoveFromIndex(t) ==
    /\ ThreadFrame
    /\ Stmt(t) = "RemoveFromIndex"
    /\ bucketIndexes' = RemoveFromIndex(bucketIndexes, BucketName, top[t].key, top[t].entity)
    /\ tpc' = [tpc EXCEPT ![t] = @ + 1]
    /\ UNCHANGED <<store, indexMutex, dbTx, tlocal>>

\* defer indexMutex.Unlock()
IndexUnlock(t) ==
    /\ ThreadFrame
    /\ Stmt(t) = "Unlock"
    /\ indexMutex' = [indexMutex EXCEPT !.w = 0]
    /\ tpc' = [tpc EXCEPT ![t] = @ + 1]
    /\ UNCHANGED <<bucketIndexes, store, dbTx, tlocal>>

\* indexMutex.RLock()
IndexRLock(t) ==
    /\ ThreadFrame
    /\ Stmt(t) = "RLock" /\ CanStep(t)
    /\ indexMutex' = [indexMutex EXCEPT !.r = @ \cup {t}]
    /\ tpc' = [tpc EXCEPT ![t] = @ + 1]
    /\ UNCHANGED <<bucketIndexes, store, dbTx, tlocal>>

\* the body of HasIndex
DoHasIndex(t) ==
    /\ ThreadFrame
    /\ Stmt(t) = "HasIndex"
    /\ tlocal' = [tlocal EXCEPT ![t].found = HasIndex(bucketIndexes, BucketName)]
    /\ tpc' = [tpc EXCEPT ![t] = @ + 1]
    /\ UNCHANGED <<bucketIndexes, store, indexMutex, dbTx>>

\* the body of GetIndexedKeys(bucketName, "x", 1)
DoGetIndexedKeys(t) ==
    LET r == GetIndexedKeys(bucketIndexes, BucketName, "x", 1)
    IN  /\ ThreadFrame
        /\ Stmt(t) = "GetIndexedKeys"
        /\ tlocal' = [tlocal EXCEPT ![t].found = r.found, ![t].keys = r.keys]
        /\ tpc' = [tpc EXCEPT ![t] = @ + 1]
        /\ UNCHANGED <<bucketIndexes, store, indexMutex, dbTx>>

\* defer indexMutex.RUnlock(); without index, or with the value not found,
\* the call goes on to the scan, which takes neither lock
IndexRUnlock(t) ==
    /\ ThreadFrame
    /\ Stmt(t) = "RUnlock"
    /\ indexMutex' = [indexMutex EXCEPT !.r = @ \ {t}]
    /\ tpc' = [tpc EXCEPT ![t] = IF ~tlocal[t].found \/ (@ = 6 /\ tlocal[t].keys = <<>>)
                                 THEN End(t) ELSE @ + 1]
    /\ UNCHANGED <<bucketIndexes, store, dbTx, tlocal>>

\* db.Update: the store admits one writing transaction at a time
TxUpdate(t) ==
    /\ ThreadFrame
    /\ Stmt(t) = "Update" /\ CanStep(t)
    /\ dbTx' = [dbTx EXCEPT !.w = t]
    /\ tpc' = [tpc EXCEPT ![t] = @ + 1]
    /\ UNCHANGED <<bucketIndexes, store, indexMutex, tlocal>>

\* b.Put / b.Delete inside the transaction: not visible before the commit
TxWrite(t) ==
    /\ ThreadFrame
    /\ Stmt(t) \in {"Put", "Delete"}
    /\ tpc' = [tpc EXCEPT ![t] = @ + 1]
    /\ UNCHANGED <<bucketIndexes, store, indexMutex, dbTx, tlocal>>

\* db.Update returns: the write is committed, or the function's error is
\* returned and nothing is written
TxCommit(t) ==
    LET r == IF top[t].kind = "Save"
             THEN Put(store, BucketName, top[t].key, top[t].entity)
             ELSE Delete(store, BucketName, top[t].key)
    IN  /\ ThreadFrame
        /\ Stmt(t) = "Commit"
        /\ store' = r.store
        /\ tlocal' = [tlocal EXCEPT ![t].err = r.err]
        /\ dbTx' = [dbTx EXCEPT !.w = 0]
        /\ tpc' = [tpc EXCEPT ![t] = @ + 1]
        /\ UNCHANGED <<bucketIndexes, indexMutex>>

\* db.View: a reading transaction on the store as committed now
TxView(t) ==
    /\ ThreadFrame
    /\ Stmt(t) = "View"
    /\ dbTx' = [dbTx EXCEPT !.r = @ \cup {t}]
    /\ tlocal' = [tlocal EXCEPT ![t].snap = store]
    /\ tpc' = [tpc EXCEPT ![t] = @ + 1]
    /\ UNCHANGED <<bucketIndexes, store, indexMutex>>

\* b.Get of the next key and Unmarshal; a key that cannot be read is skipped
TxGet(t) ==
    LET g == Get(tlocal[t].snap, BucketName, Head(tlocal[t].keys))
    IN  /\ ThreadFrame
        /\ Stmt(t) = "Get"
        /\ tlocal' = [tlocal EXCEPT
                        ![t].results = IF g.err = "nil" THEN Append(@, g.entity) ELSE @,
                        ![t].keys = Tail(@)]
        /\ tpc' = [tpc EXCEPT ![t] = @ + 1]
        /\ UNCHANGED <<bucketIndexes, store, indexMutex, dbTx>>

\* db.View returns; the loop goes on with the next key
TxEndView(t) ==
    /\ ThreadFrame
    /\ Stmt(t) = "EndView"
    /\ dbTx' = [dbTx EXCEPT !.r = @ \ {t}]
    /\ tpc' = [tpc EXCEPT ![t] = IF tlocal[t].keys /= <<>> THEN 7 ELSE End(t)]
    /\ UNCHANGED <<bucketIndexes, store, indexMutex, tlocal>>

NextConc ==
    \/ \E t \in Threads : IndexLock(t)
    \/ \E t \in Threads : DoUpdateIndex(t)
    \/ \E t \in Threads : DoRemoveFromIndex(t)
    \/ \E t \in Threads : IndexUnlock(t)
    \/ \E t \in Threads : IndexRLock(t)
    \/ \E t \in Threads : DoHasIndex(t)
    \/ \E t \in Threads : DoGetIndexedKeys(t)
    \/ \E t \in Threads : IndexRUnlock(t)
    \/ \E t \in Threads : TxUpdate(t)
    \/ \E t \in Threads : TxWrite(t)
    \/ \E t \in Threads : TxCommit(t)
    \/ \E t \in Threads : TxView(t)
    \/ \E t \in Threads : TxGet(t)
    \/ \E t \in Threads : TxEndView(t)

(***************************************************************************)
(* Specifications                                                          *)
(***************************************************************************)
CodecIdle ==
    cin = <<>> /\ cframe = <<>> /\ cout = <<>> /\ cpc = "idle" /\ cwriter = "none" /\ cfail = {}

\* Save and Delete through the core, from an empty bucket or a database
\* without the bucket, and no index
\* no format upgrade is pending, no thread is in GetFieldMatcher and the cache
\* is empty, no database is registered
NoCall == [op |-> "none", name |-> "", err |-> "nil"]

MigIdle == pending = <<>>

CacheIdle == matcherCache = 0 /\ gpc = <<>> /\ glocal = <<>> /\ built = 0 /\ gimpl = "none"

MgrIdle == databases = {} /\ defaultDB = "" /\ mlast = NoCall

PoolIdle == numCPU = 0

NoAlias == [field |-> "", value |-> 0]

CallerIdle == callerPc = "idle" /\ callerKeys = <<>> /\ callerAlias = NoAlias

LookupIdle ==
    ltype = EntityFields /\ lentity = NewEntity("", 0, 0) /\ lkey = "" /\ lpc = "idle" /\ lret = NotFound

ExtIdle == MigIdle /\ CacheIdle /\ MgrIdle /\ PoolIdle /\ CallerIdle /\ LookupIdle

Init == (IndexInit \/ NoBucketInit) /\ CodecIdle /\ criteria = EmptyMap /\ numWorkers = 1 /\ FindIdle /\ ConcIdle /\ MatchIdle /\ ExtIdle

Next ==
    \/ \E entity \in Entities : SaveToDatabase(entity)
    \/ \E entity \in Entities : DeleteFromDatabase(entity)
    \/ \E entity \in Entities : SoftDeleteFromDatabase(entity)

Spec == Init /\ [][Next]_vars

\* one FindWhereInDatabase call on a filled bucket
InitFind == FindInit /\ CodecIdle /\ nops = 0 /\ last = NoOp /\ ConcIdle /\ MatchIdle /\ ExtIdle

SpecFind == InitFind /\ [][NextFind]_vars

\* one FindWhereInDatabase call on a bucket of raw values, or on no bucket
InitFindRaw == RawInit /\ CodecIdle /\ nops = 0 /\ last = NoOp /\ ConcIdle /\ MatchIdle /\ ExtIdle

SpecFindRaw == InitFindRaw /\ [][NextFind]_vars

\* one FindWhereInDatabase call with a criterion on a slice-typed field
InitFindTags == TagsInit /\ CodecIdle /\ nops = 0 /\ last = NoOp /\ ConcIdle /\ MatchIdle /\ ExtIdle

SpecFindTags == InitFindTags /\ [][NextFind]_vars

\* a sequence of Save and Delete calls followed by one FindWhere: the calls
\* are made before the query starts, on a bucket that holds one saved record
SavedCriteria ==
    {[k \in {"y"} |-> w] : w \in YVals}
      \cup {[k \in {"x", "y"} |-> IF k = "x" THEN 1 ELSE w] : w \in YVals}

\* the record saved through the core before the calls under study
SeedEntity == NewEntity("C", 1, 2)

InitSaveFind ==
    /\ bucketIndexes = UpdateIndex(EmptyMap, BucketName, "C", SeedEntity)
    /\ store = Put(MapPut(EmptyMap, BucketName, EmptyMap), BucketName, "C", SeedEntity).store
    /\ nops = 0
    /\ last = NoOp
    /\ criteria \in SavedCriteria
    /\ numWorkers = 1
    /\ FindIdle
    /\ CodecIdle /\ ConcIdle /\ MatchIdle /\ ExtIdle

NextSaveFind ==
    \/ fpc = "start" /\ \E entity \in Entities : SaveToDatabase(entity)
    \/ fpc = "start" /\ \E entity \in Entities : DeleteFromDatabase(entity)
    \/ NextFind

SpecSaveFind == InitSaveFind /\ [][NextSaveFind]_vars

\* FindWhere with three criteria, one of them under a name that is not indexed
InitPlan == PlanInit /\ CodecIdle /\ nops = 0 /\ last = NoOp /\ ConcIdle /\ MatchIdle /\ ExtIdle

SpecPlan == InitPlan /\ [][NextFind]_vars

\* threads calling Save, Delete and FindWhere concurrently
InitConc == ConcInit /\ CodecIdle /\ criteria = EmptyMap /\ numWorkers = 1 /\ FindIdle /\ MatchIdle /\ ExtIdle

SpecConc == InitConc /\ [][NextConc]_vars

\* the envelope on its own
InitCodec == CodecInit /\ IndexInit /\ criteria = EmptyMap /\ numWorkers = 1 /\ FindIdle
             /\ ConcIdle /\ MatchIdle /\ ExtIdle

NextCodec == Compress \/ WriteLegacy \/ Decompress

SpecCodec == InitCodec /\ [][NextCodec]_vars

\* DecompressData on frames that were damaged in the store
InitDamaged == InitCodec /\ cfail = {}

NextDamaged == WriteDamaged \/ Decompress

SpecDamaged == InitDamaged /\ [][NextDamaged]_vars

\* MatchesCriteria on every record and criteria map of the input sets
InitMatch == MatchInit /\ ExtIdle /\ IndexInit /\ CodecIdle /\ criteria = EmptyMap /\ numWorkers = 1
             /\ FindIdle /\ ConcIdle

NextMatch == Match

SpecMatch == InitMatch /\ [][NextMatch]_vars

(***************************************************************************)
(* bucket_main.go: the format upgrade of DB.Get.  A value read from a      *)
(* frame tagged 0 or 1 whose decoded bytes are more than 50 is written     *)
(* back by a goroutine that calls db.Put with the record that was read.    *)
(***************************************************************************)
\* the JSON of a record followed by white space: a value of 51 bytes
WideJSON(entity) == Marshal(entity) \o [i \in 1..(threshold - 6) |-> 32]

\* how a key's value was written: by an earlier version behind tag 0 or
\* tag 1 (wide or of 7 bytes), or by CompressData
StoredKinds == {"absent", "raw", "gzip", "rawShort", "modern"}

StoredFrame(kind, entity) ==
    CASE kind = "raw" -> LegacyFrame("raw", WideJSON(entity))
      [] kind = "gzip" -> LegacyFrame("gzip", WideJSON(entity))
      [] kind = "rawShort" -> LegacyFrame("raw", Marshal(entity))
      [] kind = "modern" -> CompressData(WideJSON(entity))

\* the bucket with the values of the keys whose kind is not absent
StoredBucket(kinds) ==
    [k \in {x \in OpKeys : kinds[x] /= "absent"} |-> StoredFrame(kinds[k], NewEntity(k, 1, 2))]

\* needsMigration as db.Get sets it inside the View transaction
NeedsMigration(data) ==
    Len(data) > 0 /\ (data[1] = 0 \/ data[1] = 1) /\ Len(DecompressData(data)) > 50

MigrateInit ==
    /\ bucketIndexes = EmptyMap
    /\ \E kinds \in [OpKeys -> StoredKinds] :
          store = MapPut(EmptyMap, BucketName, StoredBucket(kinds))
    /\ nops = 0
    /\ last = NoOp
    /\ pending = <<>>

\* db.Get(bucketName, key, target): the read, then go func() { db.Put(...) }()
DbGet(key) ==
    LET r == Get(store, BucketName, key)
    IN  /\ nops < MaxOps
        /\ UNCHANGED <<codecVars, findVars, concVars, matchVars, cacheVars, mgrVars, poolVars, callerVars, lookupVars>>
        /\ pending' = IF r.err = "nil" /\ NeedsMigration(store[BucketName][key])
                       THEN Append(pending, [key |-> key, entity |-> r.entity])
                       ELSE pending
        /\ nops' = nops + 1
        /\ last' = [op |-> "Get", key |-> key, entity |-> r.entity, err |-> r.err,
                    preKeys |-> NoOp.preKeys]
        /\ UNCHANGED <<bucketIndexes, store>>

\* the goroutine started by db.Get runs: db.Put(bucketName, key, target)
RunMigration(i) ==
    /\ i \in 1..Len(pending)
    /\ UNCHANGED <<codecVars, findVars, concVars, matchVars, cacheVars, mgrVars, poolVars, callerVars, lookupVars>>
    /\ store' = Put(store, BucketName, pending[i].key, pending[i].entity).store
    /\ pending' = SubSeq(pending, 1, i - 1) \o SubSeq(pending, i + 1, Len(pending))
    /\ UNCHANGED <<bucketIndexes, nops, last>>

InitMigrate ==
    /\ MigrateInit
    /\ CacheIdle /\ MgrIdle /\ PoolIdle /\ CallerIdle /\ LookupIdle
    /\ CodecIdle /\ criteria = EmptyMap /\ numWorkers = 1 /\ FindIdle /\ ConcIdle /\ MatchIdle

NextMigrate ==
    \/ \E key \in OpKeys : DbGet(key)
    \/ \E i \in 1..MaxOps : RunMigration(i)
    \/ \E entity \in Entities : SaveToDatabase(entity)
    \/ \E entity \in Entities : DeleteFromDatabase(entity)

SpecMigrate == InitMigrate /\ [][NextMigrate]_vars

(***************************************************************************)
(* The scan under fair scheduling: every goroutine that can take a step    *)
(* eventually takes one.  The two timers are not forced to fire.           *)
(***************************************************************************)
\* a bucket of n records without an index, so that the query scans
FairInit ==
    /\ \E n \in 0..MaxItems : store = FillStore([i \in 1..n |-> <<1, 2>>], n)
    /\ bucketIndexes = EmptyMap
    /\ criteria \in {EmptyMap, [k \in {"y"} |-> 3]}
    /\ \E cpu \in 1..MaxCPU : numWorkers = NumWorkers(cpu)
    /\ FindIdle

InitFair == FairInit /\ CodecIdle /\ nops = 0 /\ last = NoOp /\ ConcIdle /\ MatchIdle /\ ExtIdle

\* a worker can receive: one is in its range loop and the queue holds an item
CanRecv == \E w \in Workers : wpc[w] = "run" /\ workChan /= <<>>

\* weak fairness of the workers' receive, with the enabling condition
\* written as the guard of WorkerRecv
RecvFairness ==
    ([]<>~CanRecv) \/ ([]<><<\E w \in Workers : WorkerRecv(w)>>_vars)

FairWorkerFinish(w) == w \in Workers /\ WorkerFinish(w)

Fairness ==
    /\ WF_vars(Plan)
    /\ WF_vars(ProducerSend)
    /\ WF_vars(ProducerClose)
    /\ RecvFairness
    /\ \A w \in 1..NumWorkers(MaxCPU) : WF_vars(FairWorkerFinish(w))
    /\ WF_vars(CloseResults)
    /\ WF_vars(CollectorRecv)
    /\ WF_vars(CollectorClosed)

SpecFair == InitFair /\ [][NextFind]_vars /\ Fairness

(***************************************************************************)
(* The scan on machines of 1..MaxCores CPUs.  With more than MaxCPU CPUs   *)
(* the bucket holds at most one record.                                    *)
(***************************************************************************)
MaxCores == 8

PoolInit ==
    /\ \E cpu \in 1..MaxCores : \E n \in 0..MaxItems :
          /\ cpu > MaxCPU => n <= 1
          /\ numCPU = cpu
          /\ numWorkers = NumWorkers(cpu)
          /\ store = FillStore([i \in 1..n |-> <<1, 2>>], n)
    /\ bucketIndexes = EmptyMap
    /\ criteria = EmptyMap
    /\ FindIdle

InitPool ==
    /\ PoolInit
    /\ MigIdle /\ CacheIdle /\ MgrIdle /\ CallerIdle /\ LookupIdle
    /\ CodecIdle /\ nops = 0 /\ last = NoOp /\ ConcIdle /\ MatchIdle

SpecPool == InitPool /\ [][NextFind]_vars

(***************************************************************************)
(* indexing.go: the key lists of the index and the slice GetIndexedKeys    *)
(* hands to its caller.  A Go slice shares its array with the slice it was *)
(* taken from; a caller that writes into a shared array writes into the    *)
(* index.                                                                  *)
(***************************************************************************)
\* records of three keys with one value of x
KeyEntities == {NewEntity(id, 1, y) : id \in {"A", "B", "C"}, y \in YVals}

\* return keys: the caller's slice shares the array of the list at ref
KeysAliased(ref) == ref

\* keysCopy := make([]string, len(keys)); copy(keysCopy, keys): nothing shared
KeysCopy(ref) == NoAlias

\* a caller calls indexing.GetIndexedKeys(bucketName, field, value)
CallGetIndexedKeys(field, value) ==
    LET r == GetIndexedKeys(bucketIndexes, BucketName, field, value)
    IN  /\ callerPc = "idle"
        /\ r.found
        /\ UNCHANGED <<codecVars, indexVars, findVars, concVars, matchVars,
                       migVars, cacheVars, mgrVars, poolVars, lookupVars>>
        /\ callerKeys' = r.keys
        /\ callerAlias' = KeysCopy([field |-> field, value |-> value])
        /\ callerPc' = "held"

\* the index after a write at position 1 of the array of the list at ref
WriteThrough(idx, ref, key) ==
    IF ref /= NoAlias /\ GetIndexedKeys(idx, BucketName, ref.field, ref.value).found
    THEN [idx EXCEPT ![BucketName][ref.field][ref.value][1] = key]
    ELSE idx

\* the caller overwrites the first element of the slice it was given
CallerModify ==
    /\ callerPc = "held"
    /\ callerKeys /= <<>>
    /\ UNCHANGED <<codecVars, findVars, concVars, matchVars,
                   migVars, cacheVars, mgrVars, poolVars, lookupVars>>
    /\ callerKeys' = [callerKeys EXCEPT ![1] = "E"]
    /\ bucketIndexes' = WriteThrough(bucketIndexes, callerAlias, "E")
    /\ callerPc' = "modified"
    /\ UNCHANGED <<callerAlias, store, nops, last>>

InitKeys ==
    /\ IndexInit
    /\ MigIdle /\ CacheIdle /\ MgrIdle /\ PoolIdle /\ LookupIdle /\ CallerIdle
    /\ CodecIdle /\ criteria = EmptyMap /\ numWorkers = 1 /\ FindIdle /\ ConcIdle /\ MatchIdle

NextKeys ==
    \/ \E entity \in KeyEntities : SaveToDatabase(entity)
    \/ \E entity \in KeyEntities : DeleteFromDatabase(entity)
    \/ \E field \in IndexableNames : \E value \in XVals \cup YVals :
          CallGetIndexedKeys(field, value)
    \/ CallerModify

SpecKeys == InitKeys /\ [][NextKeys]_vars

(***************************************************************************)
(* reflection.go: GetFieldValue on record types whose json tags differ.    *)
(* The types declare the fields of EntityFields; X and Y carry the tags    *)
(* given.  In TypeOf("Y", "y") the name Y is the alias of X and the        *)
(* declared name of Y.                                                     *)
(***************************************************************************)
TypeOf(tx, ty) == [EntityFields EXCEPT ![2].Tag = tx, ![3].Tag = ty]

RecordTypes == {TypeOf("x", "y"), TypeOf("Y", "y"), TypeOf("Y", "X"), TypeOf("", "-")}

LookupNames == {"x", "X", "y", "Y", "z", "-", ""}

LookupInit ==
    /\ ltype \in RecordTypes
    /\ lentity \in MatchRecords
    /\ lkey \in LookupNames
    /\ lpc = "call"
    /\ lret = NotFound

\* matcher.GetFieldValue(entityValue, key) with matcher = GetFieldMatcher(type)
Lookup ==
    /\ lpc = "call"
    /\ UNCHANGED <<codecVars, indexVars, findVars, concVars, matchVars,
                   migVars, cacheVars, mgrVars, poolVars, callerVars>>
    /\ lret' = GetFieldValue(MatcherOf(ltype), lentity, lkey)
    /\ lpc' = "returned"
    /\ UNCHANGED <<ltype, lentity, lkey>>

InitLookup ==
    /\ LookupInit
    /\ IndexInit
    /\ MigIdle /\ CacheIdle /\ MgrIdle /\ PoolIdle /\ CallerIdle
    /\ CodecIdle /\ criteria = EmptyMap /\ numWorkers = 1 /\ FindIdle /\ ConcIdle /\ MatchIdle

NextLookup == Lookup

SpecLookup == InitLookup /\ [][NextLookup]_vars

(***************************************************************************)
(* GetFieldMatcher called by several goroutines for one record type.       *)
(* reflection.go guards a map with matcherMutex: the lookup under RLock,   *)
(* the construction outside any lock, the assignment under Lock.           *)
(* part_003 uses a sync.Map: Load, the construction, LoadOrStore.  Every   *)
(* access to the cache is one step; a matcher is named by the number of    *)
(* the construction that made it (0: none).                                *)
(***************************************************************************)
MaxCallers == 3

Callers == 1..MaxCallers

Implementations == {"mutex", "syncmap"}

MatcherInit ==
    /\ gimpl \in Implementations
    /\ matcherCache = 0
    /\ gpc = [t \in Callers |-> "call"]
    /\ glocal = [t \in Callers |-> 0]
    /\ built = 0

MatcherFrame ==
    UNCHANGED <<codecVars, indexVars, findVars, concVars, matchVars,
                migVars, mgrVars, poolVars, callerVars, lookupVars, gimpl>>

\* RLock; matcherCache[typ]; RUnlock (reflection.go:29-34), or
\* matcherCache.Load(typ) (part_003:28-30)
LoadMatcher(t) ==
    /\ gpc[t] = "call"
    /\ MatcherFrame
    /\ IF matcherCache /= 0
       THEN /\ glocal' = [glocal EXCEPT ![t] = matcherCache]
            /\ gpc' = [gpc EXCEPT ![t] = "returned"]
       ELSE /\ gpc' = [gpc EXCEPT ![t] = "build"]
            /\ UNCHANGED glocal
    /\ UNCHANGED <<matcherCache, built>>

\* matcher := &FieldMatcher{...} and the loop over the fields
BuildMatcher(t) ==
    /\ gpc[t] = "build"
    /\ MatcherFrame
    /\ built' = built + 1
    /\ glocal' = [glocal EXCEPT ![t] = built + 1]
    /\ gpc' = [gpc EXCEPT ![t] = "store"]
    /\ UNCHANGED matcherCache

\* Lock; matcherCache[typ] = matcher; Unlock; return matcher
\* (reflection.go:56-60), or LoadOrStore and return of the entry that is
\* in the map (part_003:55-58)
StoreResult(cache, mine, impl) ==
    IF impl = "syncmap" /\ cache /= 0
    THEN [cache |-> cache, ret |-> cache]
    ELSE [cache |-> mine, ret |-> mine]

StoreMatcher(t) ==
    /\ gpc[t] = "store"
    /\ MatcherFrame
    /\ LET r == StoreResult(matcherCache, glocal[t], gimpl)
       IN  /\ matcherCache' = r.cache
           /\ glocal' = [glocal EXCEPT ![t] = r.ret]
    /\ gpc' = [gpc EXCEPT ![t] = "returned"]
    /\ UNCHANGED built

InitMatcher ==
    /\ MatcherInit
    /\ IndexInit
    /\ MigIdle /\ MgrIdle /\ PoolIdle /\ CallerIdle /\ LookupIdle
    /\ CodecIdle /\ criteria = EmptyMap /\ numWorkers = 1 /\ FindIdle /\ ConcIdle /\ MatchIdle

NextMatcher ==
    \/ \E t \in Callers : LoadMatcher(t)
    \/ \E t \in Callers : BuildMatcher(t)
    \/ \E t \in Callers : StoreMatcher(t)

SpecMatcher == InitMatcher /\ [][NextMatcher]_vars

(***************************************************************************)
(* Save, Delete and Create with the checks they make before they touch     *)
(* the index: the database is looked up in the manager, the bucket name is *)
(* derived from the value, the ID is read.                                 *)
(***************************************************************************)
\* what the caller passes as entity: a struct embedding Bucket, a struct
\* with an ID field of its own, nil, or a value that is no struct
Shapes == {"bucket", "plain", "nil", "int"}

DbNames == {"", "main", "ghost"}

CallEntities == {NewEntity(id, 1, y) : id \in {"", "A", "B"}, y \in YVals}

\* database.GetNamed: the error it returns
GetNamed(name) ==
    LET n == IF name = "" THEN defaultDB ELSE name
    IN  IF n = "" THEN "ErrNoDefaultDatabase"
        ELSE IF n \notin databases THEN "database not found"
        ELSE "nil"

\* reflection.GetBucketName: the error it returns
GetBucketName(shape) ==
    IF shape = "nil" THEN "nil value provided"
    ELSE IF shape = "int" THEN "expected struct"
    ELSE "nil"

\* a call that checks nothing
ValidateNothing(dbName, shape, id) == "nil"

\* the checks of SaveToDatabase, DeleteFromDatabase and CreateInDatabase,
\* in their order
Validate(dbName, shape, id) ==
    IF GetNamed(dbName) /= "nil" THEN GetNamed(dbName)
    ELSE IF GetBucketName(shape) /= "nil" THEN GetBucketName(shape)
    ELSE IF id = "" THEN "ID field is required"
    ELSE "nil"

\* the early return: nothing but the result
Rejected(op, entity, err) ==
    /\ nops < MaxOps
    /\ UNCHANGED <<codecVars, findVars, concVars, matchVars, extVars>>
    /\ UNCHANGED <<bucketIndexes, store>>
    /\ nops' = nops + 1
    /\ last' = [op |-> op, key |-> entity.Bucket.ID, entity |-> entity, err |-> err,
                preKeys |-> KeysAt(bucketIndexes, entity)]

SaveCall(dbName, shape, entity) ==
    LET err == Validate(dbName, shape, entity.Bucket.ID)
    IN  IF err = "nil" THEN SaveToDatabase(entity) ELSE Rejected("Save", entity, err)

DeleteCall(dbName, shape, entity) ==
    LET err == Validate(dbName, shape, entity.Bucket.ID)
    IN  IF err = "nil" THEN DeleteFromDatabase(entity) ELSE Rejected("Delete", entity, err)

\* CreateInDatabase: val.NumField() panics on nil and on a value that is no
\* struct; a struct with a Bucket goes through SaveToDatabase, another
\* struct through the same checks and UpdateIndex, db.Put
CreateCall(dbName, shape, entity) ==
    IF shape \in {"nil", "int"} THEN Rejected("Create", entity, "panic")
    ELSE SaveCall(dbName, shape, entity)

CallInit ==
    /\ \/ databases = {"main"} /\ defaultDB = "main"
       \/ databases = {} /\ defaultDB = ""
    /\ mlast = NoCall

InitCall ==
    /\ IndexInit
    /\ CallInit
    /\ MigIdle /\ CacheIdle /\ PoolIdle /\ CallerIdle /\ LookupIdle
    /\ CodecIdle /\ criteria = EmptyMap /\ numWorkers = 1 /\ FindIdle /\ ConcIdle /\ MatchIdle

NextCall ==
    \/ \E dbName \in DbNames, shape \in Shapes, entity \in CallEntities :
          SaveCall(dbName, shape, entity)
    \/ \E dbName \in DbNames, shape \in Shapes, entity \in CallEntities :
          DeleteCall(dbName, shape, entity)
    \/ \E dbName \in DbNames, shape \in Shapes, entity \in CallEntities :
          CreateCall(dbName, shape, entity)

SpecCall == InitCall /\ [][NextCall]_vars

(***************************************************************************)
(* The database manager: the registered databases (by name) and the name   *)
(* of the default one.  Every function holds manager.mutex from its first  *)
(* statement to its return, so each call is one step.  Whether the file    *)
(* can be opened and whether bbolt closes it without error are inputs.     *)
(***************************************************************************)
MgrNames == {"", "main", "aux", "log"}

ManagerInit ==
    /\ databases = {}
    /\ defaultDB = ""
    /\ mlast = NoCall

ManagerFrame ==
    UNCHANGED <<codecVars, indexVars, findVars, concVars, matchVars,
                migVars, cacheVars, poolVars, callerVars, lookupVars>>

Connect(name, opens) ==
    LET n == IF name = "" THEN "main" ELSE name
    IN  /\ ManagerFrame
        /\ IF n \in databases
           THEN /\ mlast' = [op |-> "Connect", name |-> name, err |-> "ErrDatabaseExists"]
                /\ UNCHANGED <<databases, defaultDB>>
           ELSE IF ~opens
           THEN /\ mlast' = [op |-> "Connect", name |-> name, err |-> "open failed"]
                /\ UNCHANGED <<databases, defaultDB>>
           ELSE /\ databases' = databases \cup {n}
                /\ defaultDB' = IF defaultDB = "" THEN n ELSE defaultDB
                /\ mlast' = [op |-> "Connect", name |-> name, err |-> "nil"]

SetDefault(name) ==
    /\ ManagerFrame
    /\ IF name \notin databases
       THEN /\ mlast' = [op |-> "SetDefault", name |-> name, err |-> "ErrDatabaseNotFound"]
            /\ UNCHANGED <<databases, defaultDB>>
       ELSE /\ defaultDB' = name
            /\ mlast' = [op |-> "SetDefault", name |-> name, err |-> "nil"]
            /\ UNCHANGED databases

\* a Close that leaves the default empty
NoNextDefault(remaining) == {""}

\* manager.defaultDB = "" and the first name of the iteration over the
\* remaining databases, whose order Go leaves open
NextDefault(remaining) == IF remaining = {} THEN {""} ELSE remaining

Close(name, closes) ==
    LET n == IF name = "" THEN defaultDB ELSE name
    IN  /\ ManagerFrame
        /\ IF n = ""
           THEN /\ mlast' = [op |-> "Close", name |-> name, err |-> "ErrNoDefaultDatabase"]
                /\ UNCHANGED <<databases, defaultDB>>
           ELSE IF n \notin databases
           THEN /\ mlast' = [op |-> "Close", name |-> name, err |-> "database not found"]
                /\ UNCHANGED <<databases, defaultDB>>
           ELSE IF ~closes
           THEN /\ mlast' = [op |-> "Close", name |-> name, err |-> "error closing database"]
                /\ UNCHANGED <<databases, defaultDB>>
           ELSE /\ databases' = databases \ {n}
                /\ IF defaultDB = n
                   THEN defaultDB' \in NextDefault(databases \ {n})
                   ELSE defaultDB' = defaultDB
                /\ mlast' = [op |-> "Close", name |-> name, err |-> "nil"]

CloseAll(closes) ==
    /\ ManagerFrame
    /\ databases' = {}
    /\ defaultDB' = ""
    /\ mlast' = [op |-> "CloseAll", name |-> "",
                 err |-> IF closes \/ databases = {} THEN "nil" ELSE "errors closing databases"]

InitManager ==
    /\ ManagerInit
    /\ IndexInit
    /\ MigIdle /\ CacheIdle /\ PoolIdle /\ CallerIdle /\ LookupIdle
    /\ CodecIdle /\ criteria = EmptyMap /\ numWorkers = 1 /\ FindIdle /\ ConcIdle /\ MatchIdle

NextManager ==
    \/ \E name \in MgrNames, opens \in BOOLEAN : Connect(name, opens)
    \/ \E name \in MgrNames : SetDefault(name)
    \/ \E name \in MgrNames, closes \in BOOLEAN : Close(name, closes)
    \/ \E closes \in BOOLEAN : CloseAll(closes)

SpecManager == InitManager /\ [][NextManager]_vars

(***************************************************************************)
(* Properties                                                              *)
(***************************************************************************)
\* C1: for every byte sequence b, empty, below the threshold or at and above
\* it, DecompressData(CompressData(b)) = b.
RoundTrip == cpc /= "framed" /\ cpc /= "input" => (cpc = "decoded" /\ cout = cin)

\* a frame of an input at the threshold that a codec shortened was decoded
RoundTripWitness ==
    /\ cpc = "decoded"
    /\ Len(cin) >= threshold
    /\ cframe[1] = LZW
    /\ Len(cframe) < Len(cin)

\* the records stored in the bucket (as db.Get reads them) that satisfy a
\* criteria map over x and y, as a set
StoredEntities ==
    {Get(store, BucketName, k).entity : k \in DOMAIN store[BucketName]}

Satisfies(entity, c) ==
    \A f \in DOMAIN c : \/ (f = "x" /\ entity.X = c[f])
                         \/ (f = "y" /\ entity.Y = c[f])
                         \/ (f = "tags" /\ entity.Tags = c[f])

StoredMatches == {e \in StoredEntities : Satisfies(e, criteria)}

NoDuplicates(q) == \A i, j \in 1..Len(q) : i /= j => q[i] /= q[j]

Count(q, x) == Cardinality({i \in 1..Len(q) : q[i] = x})

\* how many times item i was taken from the work queue, over all workers
TimesConsumed(i) ==
    Cardinality({<<w, n>> \in Workers \X (1..MaxItems + 1) :
                    n <= Len(consumed[w]) /\ consumed[w][n] = i})

\* C2: on a bucket with no index, a FindWhere that returns without error
\* returns exactly the stored records satisfying the criteria, each once, and
\* every item put on the work queue was consumed by exactly one worker.
ScanReturnsExactlyMatches ==
    (fpc = "returned" /\ ~HasIndex(bucketIndexes, BucketName) /\ ret.err = "nil")
        => /\ Range(ret.results) = StoredMatches
           /\ NoDuplicates(ret.results)
           /\ \A i \in 1..produced : TimesConsumed(i) = 1

\* the same, for scans in which no hand-over to a worker timed out
ScanExactWithoutItemTimeout ==
    (fpc = "returned" /\ ret.path = "scan" /\ ret.err = "nil" /\ ~prodTimedOut)
        => /\ Range(ret.results) = StoredMatches
           /\ NoDuplicates(ret.results)
           /\ \A i \in 1..Len(Values) : TimesConsumed(i) = 1

\* the value a stored record has under an indexable name
ValueAt(entity, f) == GetFieldValue(GetFieldMatcher, entity, f).value

IndexValues == XVals \cup YVals

\* C3: after any sequence of Save and Delete on a bucket that has an index,
\* key k is in the key set of (f, v) iff the record stored under k has f = v.
IndexConsistentWithStore ==
    HasIndex(bucketIndexes, BucketName) =>
        \A k \in OpKeys : \A f \in IndexableNames : \A v \in IndexValues :
            Contains(GetIndexedKeys(bucketIndexes, BucketName, f, v).keys, k)
              <=> /\ Get(store, BucketName, k).err = "nil"
                  /\ ValueAt(Get(store, BucketName, k).entity, f) = v

\* C4: after UpdateIndex(bucket, k, r), once or repeatedly, GetIndexedKeys for
\* each indexable field at r's value reports found and lists k exactly once.
UpdateIndexIdempotent ==
    last.op = "Save" =>
        \A f \in IndexableNames :
            LET r == GetIndexedKeys(bucketIndexes, BucketName, f, ValueAt(last.entity, f))
            IN  r.found /\ Count(r.keys, last.key) = 1

\* a Save of a record whose key was already listed under all its values
UpdateIndexRepeated ==
    /\ last.op = "Save"
    /\ \A f \in IndexableNames : Contains(last.preKeys[f], last.key)

\* C5: after RemoveFromIndex(bucket, k, r) with the record r that k was
\* indexed under, no key list of r's values contains k, and a value whose
\* only key was k is no longer found.
RemoveFromIndexRemoves ==
    (last.op = "Delete" /\ \A f \in IndexableNames : Contains(last.preKeys[f], last.key))
        => \A f \in IndexableNames :
               LET r == GetIndexedKeys(bucketIndexes, BucketName, f, ValueAt(last.entity, f))
               IN  /\ ~Contains(r.keys, last.key)
                   /\ (last.preKeys[f] = <<last.key>> => ~r.found)

\* a Delete that emptied one key list and shortened another
RemovedLastAndNotLast ==
    /\ last.op = "Delete"
    /\ \A f \in IndexableNames : Contains(last.preKeys[f], last.key)
    /\ \E f \in IndexableNames : last.preKeys[f] = <<last.key>>
    /\ \E f \in IndexableNames : Len(last.preKeys[f]) > 1

\* C6: when some records of the bucket were written without UpdateIndex, a
\* FindWhere answered from the index still returns every stored record that
\* satisfies the criteria.
IndexPathReturnsAllMatches ==
    (fpc = "returned" /\ ret.path = "index") => StoredMatches \subseteq Range(ret.results)

\* C7: when two or more criteria are all found in the index, the candidate
\* keys are the intersection of the per-criterion key sets, whatever the
\* probing order; with A = {x:1, y:2} and B = {x:1, y:3} the query
\* {x:1, y:2} returns only A.
CriterionKeys(f) == Range(GetIndexedKeys(bucketIndexes, BucketName, f, criteria[f]).keys)

AllCriteriaFound ==
    \A f \in DOMAIN criteria : GetIndexedKeys(bucketIndexes, BucketName, f, criteria[f]).found

ExampleAB ==
    /\ DOMAIN store[BucketName] = {"A", "B"}
    /\ Get(store, BucketName, "A").entity = NewEntity("A", 1, 2)
    /\ Get(store, BucketName, "B").entity = NewEntity("B", 1, 3)
    /\ bucketIndexes = UpdateIndex(UpdateIndex(EmptyMap, BucketName, "A", NewEntity("A", 1, 2)),
                                   BucketName, "B", NewEntity("B", 1, 3))
    /\ criteria = [k \in {"x", "y"} |-> IF k = "x" THEN 1 ELSE 2]

MultiCriteriaIntersection ==
    /\ (fpc = "returned" /\ ret.path = "index" /\ Cardinality(DOMAIN criteria) >= 2
          /\ AllCriteriaFound)
         => /\ Range(ret.candidateKeys) = {k \in Keys : \A f \in DOMAIN criteria : k \in CriterionKeys(f)}
            /\ NoDuplicates(ret.candidateKeys)
    /\ (fpc = "returned" /\ ExampleAB) => ret.results = <<NewEntity("A", 1, 2)>>

MultiCriteriaExample == fpc = "returned" /\ ExampleAB /\ ret.path = "index"

\* C8: when the producer cannot hand an item to a worker within the per-item
\* timeout, FindWhere returns a timeout error, never a result with a nil error.
ItemTimeoutAbortsScan ==
    (fpc = "returned" /\ prodTimedOut) => (ret.err /= "nil" /\ ret.results = <<>>)

\* C9: a collector that returns before the result channel is closed returns
\* the timeout error, and a timeout return carries no records, whatever was
\* merged before.
OverallTimeoutAllOrNothing ==
    [][(fpc = "collect" /\ fpc' = "returned" /\ (~resultClosed \/ ret'.err /= "nil"))
          => (ret'.err = "timeout waiting for results" /\ ret'.results = <<>>)]_vars

\* the timeout return after some worker buffers had been merged
TimeoutAfterMerge ==
    /\ fpc = "returned"
    /\ ret.err = "timeout waiting for results"
    /\ results /= <<>>
    /\ ~resultClosed

\* C10: every return of FindWhere is a result with no error or an error with
\* no result, on the index path and on the scan path.
ResultOrError ==
    fpc = "returned" => (ret.err = "nil" \/ ret.results = <<>>)

\* an error return while a worker holds matches
ErrorReturnWithMatchesFound ==
    /\ fpc = "returned"
    /\ ret.err /= "nil"
    /\ \E w \in Workers : localResults[w] /= <<>>

\* the store reports an error to this call: the bucket is missing, the
\* iteration callback returned an error, or a key of the index cannot be read
StoreErrorOccurred ==
    \/ ret.path = "scan" /\ (ForEach(store, BucketName).err /= "nil" \/ prodTimedOut)
    \/ ret.path = "index"
         /\ \E i \in 1..Len(ret.candidateKeys) :
               Get(store, BucketName, ret.candidateKeys[i]).err /= "nil"

\* C11: a FindWhere during which the underlying store reported an error
\* returns an error and no result.
StoreErrorAbortsQuery ==
    (fpc = "returned" /\ StoreErrorOccurred) => (ret.err /= "nil" /\ ret.results = <<>>)

\* the handed-over values that deserialize, as records
Deserialized ==
    {Unmarshal(WorkerDecode(Values[i])).entity :
        i \in {j \in 1..produced : /\ Len(Values[j]) > 0
                                   /\ Unmarshal(WorkerDecode(Values[j])).err = "nil"}}

\* C12: a value that is empty or fails to deserialize is not in the result
\* and produces no error, and the records among the other values handed to
\* the workers are evaluated and returned as if it were not there.
CorruptValuesSkipped ==
    /\ (fpc = "returned" /\ ret.path = "scan" /\ ret.err = "nil")
          => /\ Range(ret.results) = {e \in Deserialized : Satisfies(e, criteria)}
             /\ NoDuplicates(ret.results)
    /\ (fpc = "returned" /\ ret.err /= "nil") => ret.err = "timeout waiting for results"

\* a whole bucket with a corrupt value, an empty value and a record was
\* scanned and the record returned
CorruptValuesScanned ==
    /\ fpc = "returned" /\ ret.path = "scan" /\ ret.err = "nil"
    /\ produced = Len(Values) /\ produced = 3
    /\ \E i \in 1..produced : Values[i] = <<>>
    /\ \E i \in 1..produced : Values[i] = CorruptJSON(SortedKeys[i])
    /\ ret.results /= <<>>

\* C13: a FindWhere with an empty criteria map that returns without error
\* went through the scan, not the index, and returns every record of the
\* bucket once, whether or not the bucket has an index.
EmptyCriteriaMatchAll ==
    (fpc = "returned" /\ criteria = EmptyMap /\ ret.err = "nil")
        => /\ ret.path = "scan"
           /\ Range(ret.results) = StoredEntities
           /\ NoDuplicates(ret.results)

\* the part of it about the planner alone
EmptyCriteriaNeverPlanned ==
    (fpc = "returned" /\ criteria = EmptyMap) => ret.path = "scan"

\* C14: after records with a slice-typed field were saved, a FindWhere with
\* a criterion on that field does not fail: the index reports the value as
\* not found, the query is served by the scan and returns the matching records.
SliceFieldFallsBackToScan ==
    ("tags" \in DOMAIN criteria /\ HasIndex(bucketIndexes, BucketName))
        => /\ fpc /= "panic"
           /\ (fpc = "returned" /\ ret.err = "nil")
                 => (ret.path = "scan" /\ Range(ret.results) = StoredMatches)

Listed(k) == Contains(GetIndexedKeys(bucketIndexes, BucketName, "x", 1).keys, k)

Stored(k) == MapHas(store, BucketName) /\ MapHas(store[BucketName], k)

\* C15: whenever a reader can take the index lock (no thread is inside
\* UpdateIndex or RemoveFromIndex), the index lists a key iff the store holds
\* its record: no Save or Delete is visible in one and not in the other.
SaveDeleteAtomic ==
    indexMutex.w = 0 => \A k \in OpKeys : Listed(k) <=> Stored(k)

\* C17: no thread holds the index lock while it is inside a store
\* transaction, and while a call is unfinished some thread can take a step.
NoIndexLockAcrossTx ==
    /\ \A t \in Threads : ~(HoldsIndexLock(t) /\ InTx(t))
    /\ (\E t \in Threads : ~Finished(t)) => \E t \in Threads : CanStep(t)

\* one thread holds the index lock for writing while another is inside a
\* writing transaction
LockAndTxHeldApart ==
    \E t, u \in Threads : t /= u /\ indexMutex.w = t /\ dbTx.w = u

\* C16: after SoftDelete of a record that was indexed under k, no key list
\* of the index contains k.
SoftDeleteRemovesFromIndex ==
    (last.op = "SoftDelete" /\ last.err = "nil"
       /\ \A f \in IndexableNames : Contains(last.preKeys[f], last.key))
        => \A f \in IndexableNames : \A v \in IndexValues :
               ~Contains(GetIndexedKeys(bucketIndexes, BucketName, f, v).keys, last.key)

\* C18: for every input shorter than the threshold, CompressData returns a
\* frame of length len(b)+1 whose first byte is the none tag and whose
\* remainder is b.
BelowThresholdNoneFrame ==
    (cwriter = "CompressData" /\ Len(cin) < threshold)
        => /\ Len(cframe) = Len(cin) + 1
           /\ cframe[1] = None
           /\ Tail(cframe) = cin

\* an input of threshold - 1 equal bytes, which a codec would shorten, framed
BelowThresholdCompressible ==
    /\ cwriter = "CompressData"
    /\ Len(cin) = threshold - 1
    /\ Len(compressFlate(cin)) < Len(cin)
    /\ cframe = <<None>> \o cin

\* the candidates in the order they are tried, and what each one yields
TriedOrder == <<None>> \o compressors

PosOf(id) == CHOOSE i \in 1..Len(TriedOrder) : TriedOrder[i] = id

Candidate(id) == IF id = None THEN cin ELSE RunCompressor(id, cin)

Usable == {id \in Range(TriedOrder) : id \notin cfail}

\* C19: for every input at or above the threshold, the frame is the tag and
\* output of a candidate that reported no error, no longer than the frame of
\* any such candidate, and of those of minimal length the one tried first.
SmallestFrameChosen ==
    (cwriter = "CompressData" /\ Len(cin) >= threshold)
        => /\ cframe[1] \in Usable
           /\ Tail(cframe) = Candidate(cframe[1])
           /\ \A id \in Usable :
                 /\ Len(cframe) <= 1 + Len(Candidate(id))
                 /\ Len(cframe) = 1 + Len(Candidate(id)) => PosOf(cframe[1]) <= PosOf(id)

\* no codec failed, lzw's output is as long as the input and no output is
\* shorter: the input, tried first, won the tie
TieWonByEarliest ==
    /\ cwriter = "CompressData"
    /\ Len(cin) >= threshold
    /\ cfail = {}
    /\ cframe[1] = None
    /\ Len(compressLZW(cin)) = Len(cin)

\* C20: a legacy frame [1]+gzip(b) and a legacy frame [0]+b decode to b, and
\* a value of no bytes decodes to itself.
LegacyFramesDecode ==
    (cwriter \in LegacyKinds /\ cpc /= "framed")
        => /\ cpc = "decoded"
           /\ cwriter = "gzip" => (cframe[1] = 1 /\ cout = cin)
           /\ cwriter = "raw" => (cframe[1] = 0 /\ cout = cin)
           /\ cwriter = "empty" => (cframe = <<>> /\ cout = cframe)

\* a legacy gzip frame of a non-empty value was decoded
LegacyGzipDecoded ==
    /\ cpc = "decoded"
    /\ cwriter = "gzip"
    /\ cframe[1] = 1
    /\ Len(cin) >= threshold
    /\ cout = cin

\* C21: for every frame whose tag is gzip, zlib, deflate or LZW and whose
\* payload fails to decode, DecompressData returns the frame without its
\* first byte.
DecodeFailureStripsTag ==
    (cwriter = "damaged" /\ cpc \notin {"input", "framed"}
       /\ ~TagDecode(cframe[1], Tail(cframe)).ok)
        => (cpc = "decoded" /\ cout = Tail(cframe))

\* the fields of the record type that a criterion key names, by json name
\* or by field name
FieldsNamed(key) ==
    {i \in 1..NumField : EntityFields[i].Tag = key \/ EntityFields[i].Name = key}

HasIndexOnceAndForAll ==
    /\ nops = 0 => ~HasIndex(bucketIndexes, BucketName)
    /\ [][/\ HasIndex(bucketIndexes, BucketName) => HasIndex(bucketIndexes', BucketName)
          /\ last'.op \in {"Save", "SoftDelete"} => HasIndex(bucketIndexes', BucketName)
          /\ (last'.op = "Delete" /\ ~HasIndex(bucketIndexes, BucketName))
                => ~HasIndex(bucketIndexes', BucketName)]_vars

\* the only indexed key was removed by Delete and the bucket still has an index
HasIndexAfterLastKeyRemoved ==
    /\ last.op = "Delete"
    /\ \A f \in IndexableNames : last.preKeys[f] = <<last.key>>
    /\ \A f \in IndexableNames : \A v \in IndexValues :
          ~GetIndexedKeys(bucketIndexes, BucketName, f, v).found
    /\ HasIndex(bucketIndexes, BucketName)

\* C24: saving a record into a bucket that does not exist in the store
\* creates the bucket and stores the record: after a Save the record is
\* stored under its key and no error was returned.
SaveCreatesBucket ==
    last.op = "Save"
        => /\ last.err = "nil"
           /\ MapHas(store, BucketName)
           /\ MapHas(store[BucketName], last.key)

\* C24, amended: a Save into a bucket that does not exist returns
\* ErrBucketMissing and stores nothing; no Save, Delete or SoftDelete creates
\* a bucket; a Save into a bucket that exists stores the record.
SaveNeedsBucket ==
    /\ [](last.op = "Save"
            => IF MapHas(store, BucketName)
               THEN last.err = "nil" /\ MapHas(store[BucketName], last.key)
               ELSE last.err = "ErrBucketMissing")
    /\ [][~MapHas(store, BucketName) => store' = store]_vars

\* a Save into a database without the bucket has returned
SaveIntoMissingBucket ==
    /\ last.op = "Save"
    /\ last.err = "ErrBucketMissing"
    /\ store = EmptyMap

\* C25: frames with tag 4 are LZW with MSB-first bit order and 8-bit
\* literal width, for the encoder and for the decoder.
LzwFramesMsbFirst ==
    (cwriter = "CompressData" /\ cframe[1] = LZW)
        => /\ Tail(cframe) = LzwWrite(cin, "MSB")
           /\ cpc = "decoded" => LzwRead(Tail(cframe), "MSB") = [ok |-> TRUE, out |-> cout]

\* C25, amended: frames with tag 4 are LZW with LSB-first bit order and
\* 8-bit literal width (the stream opens with the clear code 2^8 in 9 bits),
\* for the encoder and for the decoder.
LzwFramesLsbFirst ==
    (cwriter = "CompressData" /\ cframe[1] = LZW)
        => /\ Tail(cframe) = LzwWrite(cin, "LSB")
           /\ UnpackLSB(Tail(cframe), 0, 0)[1] = Pow2(CodeWidth - 1)
           /\ cpc = "decoded" => LzwRead(Tail(cframe), "LSB") = [ok |-> TRUE, out |-> cout]

\* an LZW frame whose two bit orders differ was written and decoded
LzwFrameDecoded ==
    /\ cwriter = "CompressData"
    /\ cframe[1] = LZW
    /\ cpc = "decoded"
    /\ LzwWrite(cin, "MSB") /= LzwWrite(cin, "LSB")

\* the criteria of the query that the index does not hold
NotIndexed ==
    {f \in DOMAIN criteria :
        ~GetIndexedKeys(bucketIndexes, BucketName, f, criteria[f]).found}

\* C26: for a query of several criteria of which one is not found in the
\* index, the planner leaves the index and the query is answered by the
\* scan, in whatever order the criteria are probed; the path the planner
\* takes does not depend on the order in which the map yields the criteria.
PlannerIgnoresOrder ==
    /\ (HasIndex(bucketIndexes, BucketName) /\ Cardinality(DOMAIN criteria) > 1
          /\ NotIndexed /= {})
           => ret.path /= "index"
    /\ fpc /= "start"
          => \A o1, o2 \in Orders(criteria) :
                IndexPath(bucketIndexes, store, BucketName, criteria, o1).path
                  = IndexPath(bucketIndexes, store, BucketName, criteria, o2).path

\* C27: every record FindWhere returns satisfies the criteria, on the index
\* path as on the scan path, after any sequence of Save and Delete calls.
ReturnedRecordsSatisfy ==
    fpc = "returned"
        => \A i \in 1..Len(ret.results) : Satisfies(ret.results[i], criteria)

\* the positions of the candidate keys under which the store holds a record
Refetched ==
    {i \in 1..Len(ret.candidateKeys) : Get(store, BucketName, ret.candidateKeys[i]).err = "nil"}

\* C28: on the index path every candidate key is fetched from the store; a
\* candidate whose fetch fails is left out, and FindWhere returns, without
\* error, the records of the other candidates and nothing else.
IndexPathSkipsMissing ==
    (fpc = "returned" /\ ret.path = "index")
        => /\ ret.err = "nil"
           /\ Len(ret.results) = Cardinality(Refetched)
           /\ \A i \in Refetched :
                 Contains(ret.results, Get(store, BucketName, ret.candidateKeys[i]).entity)
           /\ \A j \in 1..Len(ret.results) :
                 \E i \in Refetched :
                    ret.results[j] = Get(store, BucketName, ret.candidateKeys[i]).entity

\* the index listed a key whose record had been deleted and a key whose
\* record is stored: the query returned the stored one
DeletedCandidateSkipped ==
    /\ fpc = "returned"
    /\ ret.path = "index"
    /\ ret.results /= <<>>
    /\ \E i \in 1..Len(ret.candidateKeys) :
          Get(store, BucketName, ret.candidateKeys[i]).err = "ErrNotFound"

\* thread t has executed statement s of its call
Executed(t, s) == \E i \in 1..(tpc[t] - 1) : Program(top[t].kind)[i] = s

\* no thread other than t makes a call on the key of t's call
OnlyCallOn(t) == \A u \in Threads \ {t} : top[u].key /= top[t].key

\* C29: in Save the index update for key k is complete before the store
\* write starts, and in Delete the index removal is complete before the
\* store delete starts; when the store operation fails the index change
\* stays: after a failed Save the index lists k although the store does not
\* hold it, after a failed Delete the index does not list k.
IndexBeforeStoreNoRollback ==
    \A t \in Threads :
       /\ (top[t].kind \in {"Save", "Delete"} /\ (InTx(t) \/ Executed(t, "Update")))
             => /\ Executed(t, IF top[t].kind = "Save" THEN "UpdateIndex"
                                                      ELSE "RemoveFromIndex")
                /\ Executed(t, "Unlock")
                /\ ~HoldsIndexLock(t)
       /\ (Finished(t) /\ tlocal[t].err /= "nil" /\ OnlyCallOn(t))
             => /\ top[t].kind = "Save" => (Listed(top[t].key) /\ ~Stored(top[t].key))
                /\ top[t].kind = "Delete" => ~Listed(top[t].key)

\* a Save whose db.Put failed has returned and its key is in the index
FailedSaveLeftIndexed ==
    \E t \in Threads :
       /\ top[t].kind = "Save"
       /\ Finished(t)
       /\ tlocal[t].err = "ErrBucketMissing"
       /\ Listed(top[t].key)
       /\ ~Stored(top[t].key)

\* C30: when a Save and a Delete of the same key k have both returned without
\* error, k is in the index key sets of its field values iff a record is
\* stored under k.
SaveDeleteSameKeyAgree ==
    \A t, u \in Threads :
       (/\ top[t].kind = "Save" /\ top[u].kind = "Delete" /\ top[t].key = top[u].key
        /\ Finished(t) /\ Finished(u)
        /\ tlocal[t].err = "nil" /\ tlocal[u].err = "nil")
          => \A f \in IndexableNames :
                Contains(KeysAt(bucketIndexes, top[t].entity)[f], top[t].key)
                  <=> Stored(top[t].key)


\* C31: the re-Put that db.Get starts for a legacy frame of more than 50
\* decoded bytes never changes what the store holds for any key: it does not
\* bring back a key deleted after the Get returned, and it does not replace
\* a value put after the Get returned.
UpgradeKeepsLaterState ==
    [][Len(pending') < Len(pending)
          => \A k \in OpKeys : Get(store', BucketName, k) = Get(store, BucketName, k)]_vars

\* the buffers of workers 1..w, one after the other
RECURSIVE MergedBuffers(_)
MergedBuffers(w) == IF w = 0 THEN <<>> ELSE MergedBuffers(w - 1) \o localResults[w]

\* two sequences with the same items, each as often
SameItems(a, b) ==
    /\ Len(a) = Len(b)
    /\ \A x \in Range(a) \cup Range(b) : Count(a, x) = Count(b, x)

\* C32: a worker sends its buffer once, when the work channel is closed and
\* empty; the result channel never holds more messages than there are
\* workers, so the send does not block; the channel is closed only when every
\* worker has sent; a return without error has merged every worker's buffer.
WorkersFlushOnce ==
    /\ [](/\ Len(resultChan) <= numWorkers
          /\ resultClosed => \A w \in Workers : wpc[w] = "done"
          /\ (fpc = "returned" /\ ret.path = "scan" /\ ret.err = "nil")
                => /\ \A w \in Workers : wpc[w] = "done"
                   /\ resultChan = <<>>
                   /\ SameItems(ret.results, MergedBuffers(numWorkers)))
    /\ [][/\ \A w \in Workers :
               /\ wpc[w] = "done" => (wpc'[w] = "done" /\ localResults'[w] = localResults[w])
               /\ (wpc[w] = "run" /\ wpc'[w] = "done")
                     => /\ workChan = <<>> /\ prod = "closed"
                        /\ resultChan' = Append(resultChan, localResults[w])
          /\ Len(resultChan') > Len(resultChan)
                => Cardinality({w \in Workers : wpc[w] = "run" /\ wpc'[w] = "done"}) = 1]_vars

\* two workers each matched a record and the query returned both
BothBuffersMerged ==
    /\ fpc = "returned"
    /\ ret.path = "scan"
    /\ ret.err = "nil"
    /\ numWorkers = 2
    /\ \A w \in Workers : localResults[w] /= <<>>

\* C33: under fair scheduling every scan ends: the work channel is closed,
\* and closed once, also after the producer's timeout; every worker exits;
\* the result channel is closed; FindWhere returns; and all of this also
\* when the collector has returned on its timeout.
ScanTerminates ==
    /\ <>(fpc = "returned")
    /\ <>[](/\ prod = "closed"
            /\ workChan = <<>>
            /\ \A w \in Workers : wpc[w] = "done"
            /\ resultClosed)
    /\ [][prod = "closed" => prod' = "closed"]_vars

\* the collector and the producer both timed out, and the producer, the
\* workers and the closer have finished
AllExitedAfterTimeouts ==
    /\ fpc = "returned"
    /\ ret.err = "timeout waiting for results"
    /\ prodTimedOut
    /\ prod = "closed"
    /\ \A w \in Workers : wpc[w] = "done"
    /\ resultClosed

KeyList(idx, f, v) == GetIndexedKeys(idx, BucketName, f, v).keys

\* q without the items equal to key, the others in their order
Without(q, key) == SelectSeq(q, LAMBDA k : k /= key)

\* C35: no key list of the index holds a key twice; UpdateIndex leaves a
\* list as it is or appends the new key at its end; RemoveFromIndex leaves a
\* list as it is or removes the key and keeps the other keys in their
\* order; a caller that writes into the list GetIndexedKeys returned does
\* not change the index.
KeyListsOrderedAndCopied ==
    /\ [](\A f \in IndexableNames : \A v \in IndexValues :
              NoDuplicates(KeyList(bucketIndexes, f, v)))
    /\ [][/\ (nops' /= nops /\ last'.op = "Save")
               => \A f \in IndexableNames : \A v \in IndexValues :
                     \/ KeyList(bucketIndexes', f, v) = KeyList(bucketIndexes, f, v)
                     \/ /\ ~Contains(KeyList(bucketIndexes, f, v), last'.key)
                        /\ KeyList(bucketIndexes', f, v)
                              = Append(KeyList(bucketIndexes, f, v), last'.key)
          /\ (nops' /= nops /\ last'.op = "Delete")
               => \A f \in IndexableNames : \A v \in IndexValues :
                     \/ KeyList(bucketIndexes', f, v) = KeyList(bucketIndexes, f, v)
                     \/ KeyList(bucketIndexes', f, v)
                           = Without(KeyList(bucketIndexes, f, v), last'.key)
          /\ callerKeys' /= callerKeys => bucketIndexes' = bucketIndexes]_vars

\* a caller overwrote the first key of the list it was given for x = 1 after
\* B was removed from between A and C, and the index still lists A, C
CallerWroteIntoItsCopy ==
    /\ callerPc = "modified"
    /\ callerKeys = <<"E", "C">>
    /\ KeyList(bucketIndexes, "x", 1) = <<"A", "C">>
    /\ last.op = "Delete"

\* the fields of the type whose json tag is the name, and those declared
\* under the name
AliasedAs(fields, name) ==
    {i \in 1..Len(fields) : fields[i].Tag = name /\ name /= "" /\ name /= "-"}

DeclaredAs(fields, name) == {i \in 1..Len(fields) : fields[i].Name = name}

\* C36: GetFieldValue returns the value of the field whose json alias is the
\* name when there is one, also when another field is declared under that
\* name; else the value of the field declared under the name; else
\* found = false.
AliasBeforeDeclaredName ==
    lpc = "returned"
        => IF AliasedAs(ltype, lkey) /= {}
           THEN /\ lret.found
                /\ \E i \in AliasedAs(ltype, lkey) : lret.value = lentity[ltype[i].Name]
           ELSE IF DeclaredAs(ltype, lkey) /= {}
           THEN /\ lret.found
                /\ \E i \in DeclaredAs(ltype, lkey) : lret.value = lentity[ltype[i].Name]
           ELSE ~lret.found

\* Y is the alias of X and the declared name of Y, the two fields hold
\* different values, and the lookup of Y returned the value of X
AliasWonOverDeclaredName ==
    /\ lpc = "returned"
    /\ ltype = TypeOf("Y", "y")
    /\ lkey = "Y"
    /\ lentity.X /= lentity.Y
    /\ lret = [found |-> TRUE, value |-> lentity.X]

\* C37: whatever the interleaving of the first calls of GetFieldMatcher for
\* a type, one matcher is constructed, every caller is returned the same
\* matcher, and an entry of the cache is never replaced.
MatcherBuiltOnce ==
    /\ [](/\ built <= 1
          /\ \A t, u \in Callers :
                (gpc[t] = "returned" /\ gpc[u] = "returned") => glocal[t] = glocal[u])
    /\ [][matcherCache /= 0 => matcherCache' = matcherCache]_vars

\* an empty ID, a database the manager does not know (or no default for
\* the empty name), a value from which no bucket name is derived
InvalidInput(dbName, shape, entity) ==
    \/ entity.Bucket.ID = ""
    \/ (IF dbName = "" THEN defaultDB ELSE dbName) \notin databases
    \/ shape \in {"nil", "int"}

\* C38: a Save or a Delete with an empty ID, an unknown database or a value
\* without a bucket name returns an error and leaves the index and the
\* store as they were.
RejectedCallChangesNothing ==
    [][\/ /\ last'.err /= "nil"
          /\ bucketIndexes' = bucketIndexes
          /\ store' = store
       \/ \A dbName \in DbNames, shape \in Shapes, entity \in CallEntities :
             ~(/\ last'.entity = entity
               /\ InvalidInput(dbName, shape, entity)
               /\ SaveCall(dbName, shape, entity) \/ DeleteCall(dbName, shape, entity))]_vars

\* a Delete without ID was rejected while the record A is indexed and stored
RejectedDeleteOnFilledIndex ==
    /\ last.op = "Delete"
    /\ last.err = "ID field is required"
    /\ GetIndexedKeys(bucketIndexes, BucketName, "x", 1).keys /= <<>>
    /\ Get(store, BucketName, "A").err = "nil"

\* C39: after any sequence of Connect, SetDefault, Close and CloseAll the
\* default name is empty or registered, and empty only when nothing is
\* registered; a Connect with a registered name returns ErrDatabaseExists
\* and a SetDefault with an unknown name ErrDatabaseNotFound, and neither
\* changes the manager.
DefaultIsRegistered ==
    /\ [](/\ defaultDB = "" \/ defaultDB \in databases
          /\ defaultDB = "" => databases = {})
    /\ [][\A name \in MgrNames :
            /\ (/\ (IF name = "" THEN "main" ELSE name) \in databases
                /\ \E opens \in BOOLEAN : Connect(name, opens))
               => (/\ mlast'.err = "ErrDatabaseExists"
                   /\ UNCHANGED <<databases, defaultDB>>)
            /\ (name \notin databases /\ SetDefault(name))
               => (/\ mlast'.err = "ErrDatabaseNotFound"
                   /\ UNCHANGED <<databases, defaultDB>>)]_vars

\* the default database was closed by the empty name while others were
\* registered, and one of them is the default now
DefaultMovedOnClose ==
    /\ mlast = [op |-> "Close", name |-> "", err |-> "nil"]
    /\ databases /= {}
    /\ defaultDB \in databases

\* C40: in every reachable state no key list of the index is empty, so a
\* GetIndexedKeys that reports found returns at least one key.
NoEmptyKeyList ==
    /\ \A b \in DOMAIN bucketIndexes : \A f \in DOMAIN bucketIndexes[b] :
          \A v \in DOMAIN bucketIndexes[b][f] : Len(bucketIndexes[b][f][v]) >= 1
    /\ \A f \in IndexableNames \cup {"z"} : \A v \in IndexValues :
          LET r == GetIndexedKeys(bucketIndexes, BucketName, f, v)
          IN  r.found => Len(r.keys) >= 1

\* a Delete took the only key of a value, which is no longer found, while
\* another value of the index still lists a key
EmptiedListIsGone ==
    /\ last.op = "Delete"
    /\ \E f \in IndexableNames :
          /\ last.preKeys[f] = <<last.key>>
          /\ ~GetIndexedKeys(bucketIndexes, BucketName, f, ValueAt(last.entity, f)).found
    /\ \E f \in IndexableNames : \E v \in IndexValues :
          GetIndexedKeys(bucketIndexes, BucketName, f, v).found
====
